---- MODULE Spec2Model ----
(***************************************************************************)
(* clutterlog: the incremental gallery build.                              *)
(*   MediaLibrary  (src/src/site/media_library.rs)  capture-date catalog   *)
(*   WebsiteMedia  (src/src/site/website_media.rs)  one media asset        *)
(*   Website       (src/src/site/website.rs)        the build              *)
(*                                                                         *)
(* Times are counted in ticks of 1/TicksPerSec second since the epoch;     *)
(* a formatted datetime ("%Y-%m-%dT%H:%M:%S") is the whole second it       *)
(* names, so the text "1970-01-01T00:00:00" is the second 0.               *)
(***************************************************************************)
EXTENDS Integers, Sequences, FiniteSets, TLC

\* ------------------------------------------------------------------ bounds
\* most entries the media directory holds at one time
MaxFiles == 2
\* most changes the user makes to the site over a run
MaxEdits == 3
\* last tick a filesystem or embedded timestamp takes
MaxTick == 4
\* sub-second resolution of a filesystem timestamp
TicksPerSec == 2
\* the longest sidecar text, in characters
MaxText == 4
\* the longest title or description put to the escaping
MaxStrLen == 2
\* the image widths and heights tried at each end of the u32 range
MaxDim == 12
\* the most entries a catalog store holds when it is first met
MaxStore == 2
\* the longest site title or description put to the rendering, in marks
MaxValueLen == 1

\* ------------------------------------------------------- absent values
\* Option::None / Err(_) of a timestamp
NoTime == -1
\* an EXIF tag that get_field does not find
Absent == -1
\* an EXIF tag whose text NaiveDateTime::parse_from_str rejects
Unparsable == -2
\* a path without an extension
NoExt == "<none>"

\* --------------------------------------------------------------- helpers
Range(s) == {s[i] : i \in 1..Len(s)}

RECURSIVE SumSeq(_)
\* the sum of a sequence of numbers
SumSeq(s) == IF s = <<>> THEN 0 ELSE Head(s) + SumSeq(Tail(s))

MinOf(S) == CHOOSE x \in S : \A y \in S : x <= y

\* --------------------------------------------------- names and extensions
Ticks == 0..MaxTick
\* a whole second, as an EXIF text or a formatted datetime names it
WholeTicks == {t \in Ticks : t % TicksPerSec = 0}

\* a slip: the extension is compared as it is spelled
to_lowercase_Identity(e) == e

\* str::to_lowercase on the extensions in use
to_lowercase(e) ==
    CASE e = "GIF" -> "gif"
      [] e = "JPG" -> "jpg"
      [] e = "PNG" -> "png"
      [] e = "Jpeg" -> "jpeg"
      [] e = "WebP" -> "webp"
      [] e = "WEBM" -> "webm"
      [] e = "Mp4" -> "mp4"
      [] e = "TXT" -> "txt"
      [] e = "Tiff" -> "tiff"
      [] OTHER -> e

ANIMATED_EXTENSIONS == {"gif", "webm", "mp4"}
SUPPORTED_EXTENSIONS == {"png", "jpg", "jpeg", "webp", "gif", "webm", "mp4"}
EXIF_EXTENSIONS == {"jpg", "jpeg", "webp", "tiff", "tif"}

\* the file names the media directory draws from: <stem>.<ext>
Names == { [stem |-> "a", ext |-> "jpg"],
           [stem |-> "c", ext |-> "GIF"],
           [stem |-> "n", ext |-> "txt"] }

\* Path::extension().and_then(to_str).map(to_lowercase)
extension(name) == IF name.ext = NoExt THEN NoExt ELSE to_lowercase(name.ext)

\* ---------------------------------------------------------- file metadata
\* what the filesystem holds for one directory entry:
\*   kind      "file" | "dir"                  (Path::is_file)
\*   tags      <<DateTimeOriginal, DateTimeDigitized, DateTime>>, each
\*             Absent, Unparsable or the whole second it names
\*   created   NoTime or a tick                (Metadata::created)
\*   modified  NoTime or a tick                (Metadata::modified)
TagValues == {Absent, Unparsable} \cup WholeTicks
TagSeqs == [1..3 -> TagValues]
NoTags == [i \in 1..3 |-> Absent]
OptTicks == {NoTime} \cup Ticks

\* chrono format("%Y-%m-%dT%H:%M:%S"): drops the sub-second part
format_system_time(t) == t \div TicksPerSec

\* the text "1970-01-01T00:00:00"
EpochSentinel == 0

RECURSIVE FirstParsed(_, _)
\* the loop over date_tags: the first tag present whose text parses
FirstParsed(tags, i) ==
    IF i > 3 THEN NoTime
    ELSE IF tags[i] # Absent /\ tags[i] # Unparsable THEN tags[i]
    ELSE FirstParsed(tags, i + 1)

\* a slip: the earliest of the tags that parse instead of the first
extract_exif_date_Earliest(name, tags) ==
    IF extension(name) = NoExt THEN NoTime
    ELSE IF extension(name) \notin EXIF_EXTENSIONS THEN NoTime
    ELSE LET ok == {i \in 1..3 : tags[i] # Absent /\ tags[i] # Unparsable}
         IN  IF ok = {} THEN NoTime
             ELSE CHOOSE t \in {tags[i] : i \in ok} :
                      \A i \in ok : t <= tags[i]

extract_exif_date(name, tags) ==
    IF extension(name) = NoExt THEN NoTime
    ELSE IF extension(name) \notin EXIF_EXTENSIONS THEN NoTime
    ELSE FirstParsed(tags, 1)

\* the candidates pushed, in order: EXIF, created, modified
Candidates(name, tags, created, modified) ==
    {t \in {extract_exif_date(name, tags), created, modified} : t # NoTime}

\* a slip: the EXIF time is returned whenever there is one
extract_oldest_date_ExifFirst(name, tags, created, modified) ==
    LET candidates == Candidates(name, tags, created, modified)
    IN  IF extract_exif_date(name, tags) # NoTime
        THEN format_system_time(extract_exif_date(name, tags))
        ELSE IF candidates = {} THEN EpochSentinel
        ELSE format_system_time(MinOf(candidates))

\* a slip: only the filesystem times are candidates
extract_oldest_date_NoExif(name, tags, created, modified) ==
    LET candidates == {t \in {created, modified} : t # NoTime}
    IN  IF candidates = {} THEN EpochSentinel
        ELSE format_system_time(MinOf(candidates))

extract_oldest_date(name, tags, created, modified) ==
    LET candidates == Candidates(name, tags, created, modified)
    IN  IF candidates = {} THEN EpochSentinel
        ELSE format_system_time(MinOf(candidates))

\* --------------------------------------------------------------- captions
\* a text is a sequence of characters; "x" stands for any character that
\* is not white space (a lone carriage return is left out)
White == {" ", "\n"}
Alphabet == {"x"} \cup White
Texts == UNION {[1..n -> Alphabet] : n \in 0..MaxText}

\* what sits at path.with_extension("txt"): nothing, a directory, or a
\* file with a text that fs::read_to_string returns or fails on
NoSidecar == [kind |-> "none", text |-> <<>>, readable |-> FALSE]
Sidecars ==
    {NoSidecar, [kind |-> "dir", text |-> <<>>, readable |-> FALSE]}
    \cup [kind : {"file"}, text : Texts, readable : BOOLEAN]

RECURSIVE lines(_)
\* str::lines: split at each newline, no empty line after a final one
lines(t) ==
    IF t = <<>> THEN <<>>
    ELSE LET nl == {i \in 1..Len(t) : t[i] = "\n"}
         IN  IF nl = {} THEN <<t>>
             ELSE LET i == CHOOSE j \in nl : \A k \in nl : j <= k
                  IN  <<SubSeq(t, 1, i - 1)>>
                         \o lines(SubSeq(t, i + 1, Len(t)))

RECURSIVE trim_start(_)
trim_start(t) ==
    IF t # <<>> /\ Head(t) \in White THEN trim_start(Tail(t)) ELSE t

RECURSIVE trim_end(_)
trim_end(t) ==
    IF t # <<>> /\ t[Len(t)] \in White
    THEN trim_end(SubSeq(t, 1, Len(t) - 1)) ELSE t

\* str::trim
trim(t) == trim_end(trim_start(t))

RECURSIVE join(_)
\* [&str]::join("\n")
join(ls) ==
    IF ls = <<>> THEN <<>>
    ELSE IF Len(ls) = 1 THEN ls[1]
    ELSE ls[1] \o <<"\n">> \o join(Tail(ls))

\* the characters of a stem; the stems of the model are one character long
chars(stem) == <<stem>>

\* a slip: the only line of a sidecar is taken as it is written
caption_NoTrim(stem, sidecar) ==
    IF sidecar.kind = "file"
    THEN LET content == IF sidecar.readable THEN sidecar.text ELSE <<>>
             ls == lines(content)
         IN  IF Len(ls) >= 2
             THEN [title |-> trim(ls[1]),
                   description |-> trim(join(Tail(ls)))]
             ELSE IF Len(ls) = 1
             THEN [title |-> chars(stem), description |-> ls[1]]
             ELSE [title |-> chars(stem), description |-> <<>>]
    ELSE [title |-> chars(stem), description |-> <<>>]

\* "Check for a sidecar .txt file next to the media file": the (title,
\* description) of WebsiteMedia::from_path
caption(stem, sidecar) ==
    IF sidecar.kind = "file"
    THEN LET content == IF sidecar.readable THEN sidecar.text ELSE <<>>
             ls == lines(content)
         IN  IF Len(ls) >= 2
             THEN [title |-> trim(ls[1]),
                   description |-> trim(join(Tail(ls)))]
             ELSE IF Len(ls) = 1
             THEN [title |-> chars(stem), description |-> trim(ls[1])]
             ELSE [title |-> chars(stem), description |-> <<>>]
    ELSE [title |-> chars(stem), description |-> <<>>]

\* ------------------------------------------------------------ classifying
NoItem == [filename |-> [stem |-> "", ext |-> NoExt], extension |-> NoExt,
           title |-> <<>>, description |-> <<>>, datetime |-> NoTime]

\* a slip: the modification time is preferred to the catalog's datetime
from_path_ModifiedFirst(name, m, datetime) ==
    IF m.kind # "file" THEN NoItem
    ELSE IF extension(name) = NoExt THEN NoItem
    ELSE IF extension(name) \notin SUPPORTED_EXTENSIONS THEN NoItem
    ELSE [filename |-> name,
          title |-> caption(name.stem, m.sidecar).title,
          description |-> caption(name.stem, m.sidecar).description,
          extension |-> extension(name),
          datetime |-> IF m.modified # NoTime
                       THEN format_system_time(m.modified)
                       ELSE IF datetime # NoTime THEN datetime
                       ELSE EpochSentinel]

\* a slip: anything with a supported extension is taken, file or not
from_path_NoFileCheck(name, m, datetime) ==
    IF extension(name) = NoExt THEN NoItem
    ELSE IF extension(name) \notin SUPPORTED_EXTENSIONS THEN NoItem
    ELSE [filename |-> name,
          title |-> caption(name.stem, m.sidecar).title,
          description |-> caption(name.stem, m.sidecar).description,
          extension |-> extension(name),
          datetime |-> IF datetime # NoTime THEN datetime
                       ELSE IF m.modified # NoTime
                            THEN format_system_time(m.modified)
                            ELSE EpochSentinel]

\* WebsiteMedia::from_path: None unless a regular file with a supported
\* lowercased extension; the datetime is the catalog's, else the file's
\* modification time, else the epoch
from_path(name, m, datetime) ==
    IF m.kind # "file" THEN NoItem
    ELSE IF extension(name) = NoExt THEN NoItem
    ELSE IF extension(name) \notin SUPPORTED_EXTENSIONS THEN NoItem
    ELSE [filename |-> name,
          title |-> caption(name.stem, m.sidecar).title,
          description |-> caption(name.stem, m.sidecar).description,
          extension |-> extension(name),
          datetime |-> IF datetime # NoTime THEN datetime
                       ELSE IF m.modified # NoTime
                            THEN format_system_time(m.modified)
                            ELSE EpochSentinel]

is_animated(item) == item.extension \in ANIMATED_EXTENSIONS

\* WebsiteMedia::thumb_filename: <stem>_thumb.webp or <stem>_thumb.<ext>
thumb_filename(item) ==
    IF is_animated(item)
    THEN [stem |-> item.filename.stem \o "_thumb", ext |-> "webp"]
    ELSE [stem |-> item.filename.stem \o "_thumb", ext |-> item.extension]

\* ------------------------------------------------------------ thumbnails
THUMB_SIZE == 350
\* the largest side the integers of the model can hold (a u32 holds
\* twice as much)
MaxSide == 2147483647
\* what a u32 subtraction below zero leaves: a panic or a wrapped value
Underflow == -1

\* the difference of two u32, and its half
sub(a, b) == IF a >= b THEN a - b ELSE Underflow
half(a) == IF a = Underflow THEN Underflow ELSE a \div 2

\* u32::min
min(a, b) == IF a <= b THEN a ELSE b

\* a slip: the square is cut to the longer side
center_crop_resize_Max(width, height, size) ==
    LET min_dim == IF width >= height THEN width ELSE height
        x == half(sub(width, min_dim))
        y == half(sub(height, min_dim))
    IN  [x |-> x, y |-> y, crop_w |-> min_dim, crop_h |-> min_dim,
         underflow |-> Underflow \in {sub(width, min_dim),
                                      sub(height, min_dim)},
         width |-> size, height |-> size]

\* center_crop_resize: the rectangle handed to crop_imm and the size
\* resize_exact gives
center_crop_resize(width, height, size) ==
    LET min_dim == min(width, height)
        x == half(sub(width, min_dim))
        y == half(sub(height, min_dim))
    IN  [x |-> x, y |-> y, crop_w |-> min_dim, crop_h |-> min_dim,
         underflow |-> Underflow \in {sub(width, min_dim),
                                      sub(height, min_dim)},
         width |-> size, height |-> size]

RECURSIVE replace(_, _, _)
\* str::replace of one character by a text
replace(t, c, by) ==
    IF t = <<>> THEN <<>>
    ELSE (IF Head(t) = c THEN by ELSE <<Head(t)>>) \o replace(Tail(t), c, by)

\* a slip: the backslash is escaped after the others
escape_js_BackslashLast(t) ==
    replace(replace(replace(replace(t,
        "\"", <<"\\", "\"">>),
        "\n", <<"\\", "n">>),
        "\r", <<"\\", "r">>),
        "\\", <<"\\", "\\">>)

\* escape_js: backslash, double quote, newline, carriage return, in turn
escape_js(t) ==
    replace(replace(replace(replace(t,
        "\\", <<"\\", "\\">>),
        "\"", <<"\\", "\"">>),
        "\n", <<"\\", "n">>),
        "\r", <<"\\", "r">>)

\* the fragment of the JSON array for one asset
to_json_entry(item) ==
    [image_url |-> item.filename, thumb_url |-> thumb_filename(item),
     title |-> escape_js(item.title),
     description |-> escape_js(item.description),
     datetime |-> item.datetime]

\* the <item> of the feed for one asset
to_rss_item(item) ==
    [link |-> item.filename, guid |-> item.filename,
     pubDate |-> item.datetime]

\* ---------------------------------------------------------------- state
VARIABLES
    \* the site on disk
    dirExists,   \* <site>/media exists
    listing,     \* the entries of <site>/media in read_dir order
    meta,        \* per name: what the filesystem holds for that entry
    store,       \* <site>/.clutterlog/metamedia.toml
    dest,        \* build/media/<name>: NoFile or the source's modified tick it copies
    thumbs,      \* build/media/<thumb>: NoFile or the source's modified tick it was made from
    \* one run of Website::build
    pc,          \* the step the build is at
    entries,     \* library.entries
    upd,         \* the UpdateReport of update_metadata
    items,       \* the (path, datetime) pairs collected from the listing
    processed,   \* per item: pending, filtered out, Ok(..) or Err(..)
    finished,    \* the item indices in the order the workers completed,
                 \* kept until the build fails or writes the page
    results,     \* the GenerationResults gathered
    items_skipped, \* how many of them took the up-to-date path
    json,        \* the entries joined into clutterlog_data
    rss,         \* rss_items
    report,      \* the BuildReport returned
    error,       \* the WebsiteError returned
    wrote,       \* the files this build has written of build/index.html,
                 \* build/feed.xml and build/public
    store_log,   \* the reads and writes this build has made of the store
    \* history
    pre,         \* dest and thumbs as the build found them
    repeat,      \* the build before this one succeeded and nothing changed since
    edits,       \* how many changes the user has made to the site
    \* the inputs and result of one date resolution
    probe

buildVars == <<pc, entries, upd, items, processed, finished, results,
               items_skipped, json, rss, report, error, wrote, store_log,
               pre, repeat>>
diskVars == <<dirExists, listing, meta, store, dest, thumbs>>
vars == <<dirExists, listing, meta, store, dest, thumbs,
          pc, entries, upd, items, processed, finished, results,
          items_skipped, json, rss, report, error, wrote, store_log,
          pre, repeat, edits, probe>>

NoFile == -1
NoMeta == [kind |-> "none", tags |-> NoTags, created |-> NoTime,
           modified |-> NoTime, sidecar |-> NoSidecar]

\* the metadata an entry of the media directory takes in a build run:
\* a regular file, with or without an EXIF capture time, modified early or
\* late; or a directory
EntryMetas ==
    { [kind |-> "file", tags |-> tg, created |-> NoTime, modified |-> mt,
       sidecar |-> NoSidecar] :
        tg \in {NoTags, [i \in 1..3 |-> IF i = 1 THEN TicksPerSec ELSE Absent]},
        mt \in {1, MaxTick} }
    \cup { [kind |-> "dir", tags |-> NoTags, created |-> NoTime, modified |-> 1,
             sidecar |-> NoSidecar] }

\* "a.jpg" always carries its EXIF block and nothing else does; only
\* "c.GIF" is also met as a directory; the text file keeps one shape
MetasFor(name) ==
    { m \in EntryMetas :
        /\ (m.tags # NoTags <=> name.stem = "a")
        /\ (m.kind = "dir" => name.stem = "c")
        /\ (name.stem = "n" => m.modified = 1) }

\* the byte length of a media file and of a thumbnail
MediaSize(name) ==
    CASE name.stem = "a" -> 3
      [] OTHER -> 5
ThumbSize == 1

\* the thumbnail path of a name, were it a regular file
ThumbOf(name) == thumb_filename(from_path(name, [NoMeta EXCEPT !.kind = "file"], NoTime))
ThumbNames == { ThumbOf(n) : n \in {x \in Names : extension(x) \in SUPPORTED_EXTENSIONS} }

NoUpd == [added |-> 0, removed |-> 0]
NoReport == [items_processed |-> 0, items_skipped |-> 0,
             total_media_size |-> 0, total_thumbs_size |-> 0]
NoPath == [stem |-> "", ext |-> NoExt]
\* <site>/media and <site>/.clutterlog/metamedia.toml
MediaDirPath == [stem |-> "media", ext |-> NoExt]
StorePath == [stem |-> "metamedia", ext |-> "toml"]
\* build, build/index.html, build/feed.xml and the two files of build/public
BuildPath == [stem |-> "build", ext |-> NoExt]
PagePath == [stem |-> "index", ext |-> "html"]
FeedPath == [stem |-> "feed", ext |-> "xml"]
StylePath == [stem |-> "style", ext |-> "css"]
ScriptPath == [stem |-> "clutterlog", ext |-> "js"]
NoError == [step |-> "none", kind |-> "none", path |-> NoPath, msg |-> "none"]
NoProbe == [name |-> [stem |-> "", ext |-> NoExt], tags |-> NoTags,
            created |-> NoTime, modified |-> NoTime, out |-> NoTime]

TypeOK ==
    /\ dirExists \in BOOLEAN
    /\ Len(listing) <= MaxFiles
    /\ Range(listing) \subseteq Names
    /\ \A n \in Names : meta[n] \in EntryMetas \cup {NoMeta}
    /\ store.exists \in BOOLEAN
    /\ \A n \in Names : dest[n] \in {NoFile} \cup Ticks
    /\ \A t \in ThumbNames : thumbs[t] \in {NoFile} \cup Ticks
    /\ pc \in {"idle", "dirs", "opened", "reconciled", "scanning", "scanned",
               "page", "feed", "done", "failed"}

\* ------------------------------------------------------------ the catalog
\* MediaLibrary::new: the entries of the store, or none when it is missing
LibraryNew(st) == IF st.exists THEN st.media ELSE <<>>

\* the read_dir loop of update_metadata: regular files with a supported
\* lowercased extension, in listing order
current_files(ls, mt) ==
    SelectSeq(ls, LAMBDA n :
        /\ mt[n].kind = "file"
        /\ extension(n) # NoExt
        /\ extension(n) \in SUPPORTED_EXTENSIONS)

\* a slip: no entry is ever found
HasEntry_Never(es, filename) == FALSE

HasEntry(es, filename) == \E i \in 1..Len(es) : es[i].name = filename

\* the datetime a new entry is given
NewEntryDate(filename, mt) ==
    extract_oldest_date(filename, mt[filename].tags, mt[filename].created,
                        mt[filename].modified)

RECURSIVE AddNewFiles(_, _, _)
\* "Add new files that aren't in metadata yet"
AddNewFiles(es, files, mt) ==
    IF files = <<>> THEN es
    ELSE LET filename == Head(files)
         IN  IF HasEntry(es, filename)
             THEN AddNewFiles(es, Tail(files), mt)
             ELSE AddNewFiles(
                    Append(es, [name |-> filename,
                                datetime |-> NewEntryDate(filename, mt)]),
                    Tail(files), mt)

\* a slip: nothing is dropped
RetainListed_KeepAll(es, files) == es

\* "Remove stale entries for files that no longer exist"
RetainListed(es, files) == SelectSeq(es, LAMBDA e : e.name \in Range(files))

\* a slip: every listed file has its date resolved afresh
UpdateExisting_Rewrite(es, ls, mt) ==
    LET files == current_files(ls, mt)
        grown == AddNewFiles(es, files, mt)
        kept  == RetainListed(grown, files)
    IN  [entries |-> [i \in 1..Len(kept) |->
                        [name |-> kept[i].name,
                         datetime |-> NewEntryDate(kept[i].name, mt)]],
         report |-> [added |-> Len(grown) - Len(es),
                     removed |-> Len(grown) - Len(kept)]]

\* MediaLibrary::update_metadata on an existing media directory:
\* the entries it leaves and the report it returns
UpdateExisting(es, ls, mt) ==
    LET files == current_files(ls, mt)
        grown == AddNewFiles(es, files, mt)
        kept  == RetainListed(grown, files)
    IN  [entries |-> kept,
         report |-> [added |-> Len(grown) - Len(es),
                     removed |-> Len(grown) - Len(kept)]]

\* a slip: the entries are counted but left in place
UpdateMissing_Keep(es) ==
    [entries |-> es, report |-> [added |-> 0, removed |-> Len(es)]]

\* MediaLibrary::update_metadata when the media directory is missing
UpdateMissing(es) ==
    [entries |-> <<>>, report |-> [added |-> 0, removed |-> Len(es)]]

\* MediaLibrary::get_datetime: the first entry of that name
get_datetime(es, filename) ==
    IF HasEntry(es, filename)
    THEN es[MinOf({i \in 1..Len(es) : es[i].name = filename})].datetime
    ELSE NoTime

\* -------------------------------------------------------- one unit of work
\* WebsiteMedia::is_up_to_date: the destination copy and the thumbnail both
\* exist and both come from the source as it is now
is_up_to_date(item, d, th, mt) ==
    /\ d[item.filename] # NoFile
    /\ th[thumb_filename(item)] # NoFile
    /\ d[item.filename] = mt[item.filename].modified
    /\ th[thumb_filename(item)] = mt[item.filename].modified

\* WebsiteMedia::read_existing_sizes: the byte sizes of the two files on disk
read_existing_sizes(item) ==
    [media_size |-> MediaSize(item.filename), thumb_size |-> ThumbSize]

\* the element a worker leaves for one item; an Err(..) holds the kind of
\* WebsiteError, the path it names if it names one, and what its text is
\* made of: the io::Error ("os") or the exit status and stderr ("exited")
Pending == [tag |-> "pending", kind |-> "none", path |-> NoItem.filename,
            msg |-> "none",
            skipped |-> FALSE, media_size |-> 0, thumb_size |-> 0,
            entry |-> to_json_entry(NoItem), rss_item |-> to_rss_item(NoItem),
            ops |-> <<>>]
Filtered == [Pending EXCEPT !.tag = "none"]
Err(path, kind, msg) ==
    [Pending EXCEPT !.tag = "err", !.kind = kind, !.path = path, !.msg = msg]
Ok(item, sizes, skipped) ==
    [tag |-> "ok", kind |-> "none", path |-> item.filename, msg |-> "none",
     skipped |-> skipped,
     media_size |-> sizes.media_size, thumb_size |-> sizes.thumb_size,
     entry |-> to_json_entry(item), rss_item |-> to_rss_item(item),
     ops |-> <<>>]
\* the element, with the calls the unit made on the filesystem and of the
\* external tool: "copy" (fs::copy), "image" (the in-process thumbnail),
\* "ffmpeg" (the child process), "sizes" (fs::metadata of the two outputs)
Did(res, ops) == [res EXCEPT !.ops = ops]

\* how the ffmpeg child can fail: Command::output() gives an io::Error of
\* kind NotFound ("notfound") or of another kind ("spawn"), or the child
\* runs and its exit status is not success ("exit")
ToolFaults == {"notfound", "spawn", "exit"}

\* a slip: a missing ffmpeg is reported like any other failure to start it
generate_ffmpeg_thumb_OneKind(item, fault) ==
    CASE fault = "notfound" -> Err(item.filename, "Ffmpeg", "os")
      [] fault = "spawn"    -> Err(item.filename, "Ffmpeg", "os")
      [] fault = "exit"     -> Err(item.filename, "Ffmpeg", "exited")
      [] OTHER -> Pending

\* WebsiteMedia::generate_ffmpeg_thumb: the Err(..) it returns, or Pending
\* for Ok(())
generate_ffmpeg_thumb(item, fault) ==
    CASE fault = "notfound" -> Err(NoPath, "FfmpegNotFound", "os")
      [] fault = "spawn"    -> Err(item.filename, "Ffmpeg", "os")
      [] fault = "exit"     -> Err(item.filename, "Ffmpeg", "exited")
      [] OTHER -> Pending

\* WebsiteMedia::generate_image_thumb: the image cannot be decoded or the
\* thumbnail cannot be encoded ("image")
generate_image_thumb(item, fault) ==
    IF fault = "image" THEN Err(item.filename, "Image", "image") ELSE Pending

\* what can go wrong in one unit of work: the copy, the thumbnail, the
\* two fs::metadata of the written files ("sizes"), or, on the up-to-date
\* path, the reading of the sizes on disk ("existing")
UnitFaults == {"none", "copy", "image", "sizes", "existing"} \cup ToolFaults

\* a slip: a unit whose thumbnail fails deletes the copy it made
copy_and_generate_thumb_Cleanup(item, d, th, mt, fault) ==
    LET copied == [d EXCEPT ![item.filename] = mt[item.filename].modified]
        made   == [th EXCEPT ![thumb_filename(item)] = mt[item.filename].modified]
        thumb  == IF is_animated(item) THEN generate_ffmpeg_thumb(item, fault)
                  ELSE generate_image_thumb(item, fault)
        how    == IF is_animated(item) THEN "ffmpeg" ELSE "image"
    IN  IF fault = "copy"
        THEN [dest |-> d, thumbs |-> th,
              res |-> Did(Err(item.filename, "Io", "os"), <<"copy">>)]
        ELSE IF thumb # Pending
        THEN [dest |-> [d EXCEPT ![item.filename] = NoFile], thumbs |-> th,
              res |-> Did(thumb, <<"copy", how>>)]
        ELSE IF fault = "sizes"
        THEN [dest |-> copied, thumbs |-> made,
              res |-> Did(Err(item.filename, "Io", "os"), <<"copy", how, "sizes">>)]
        ELSE [dest |-> copied, thumbs |-> made,
              res |-> Did(Ok(item, read_existing_sizes(item), FALSE),
                          <<"copy", how, "sizes">>)]

\* WebsiteMedia::copy_and_generate_thumb: copy, thumbnail, sizes; each
\* step that fails leaves what the earlier steps wrote
copy_and_generate_thumb(item, d, th, mt, fault) ==
    LET copied == [d EXCEPT ![item.filename] = mt[item.filename].modified]
        made   == [th EXCEPT ![thumb_filename(item)] = mt[item.filename].modified]
        thumb  == IF is_animated(item) THEN generate_ffmpeg_thumb(item, fault)
                  ELSE generate_image_thumb(item, fault)
        how    == IF is_animated(item) THEN "ffmpeg" ELSE "image"
    IN  IF fault = "copy"
        THEN [dest |-> d, thumbs |-> th,
              res |-> Did(Err(item.filename, "Io", "os"), <<"copy">>)]
        ELSE IF thumb # Pending
        THEN [dest |-> copied, thumbs |-> th, res |-> Did(thumb, <<"copy", how>>)]
        ELSE IF fault = "sizes"
        THEN [dest |-> copied, thumbs |-> made,
              res |-> Did(Err(item.filename, "Io", "os"), <<"copy", how, "sizes">>)]
        ELSE [dest |-> copied, thumbs |-> made,
              res |-> Did(Ok(item, read_existing_sizes(item), FALSE),
                          <<"copy", how, "sizes">>)]

\* a slip: the regenerated item is flagged as skipped
ProcessItem_FlagRegenerated(it, d, th, mt, fault) ==
    LET item == from_path(it.name, mt[it.name], it.datetime)
    IN  IF item = NoItem
        THEN [dest |-> d, thumbs |-> th, res |-> Filtered]
        ELSE IF is_up_to_date(item, d, th, mt)
        THEN [dest |-> d, thumbs |-> th,
              res |-> Did(IF fault = "existing"
                          THEN Err(item.filename, "Io", "os")
                          ELSE Ok(item, read_existing_sizes(item), TRUE),
                          <<"sizes">>)]
        ELSE LET r == copy_and_generate_thumb(item, d, th, mt, fault)
             IN  [r EXCEPT !.res.skipped = (r.res.tag = "ok")]

\* a slip: an up-to-date asset is copied again before its sizes are read
ProcessItem_CopyAnyway(it, d, th, mt, fault) ==
    LET item == from_path(it.name, mt[it.name], it.datetime)
    IN  IF item = NoItem
        THEN [dest |-> d, thumbs |-> th, res |-> Filtered]
        ELSE IF is_up_to_date(item, d, th, mt)
        THEN [dest |-> [d EXCEPT ![item.filename] = mt[item.filename].modified],
              thumbs |-> th,
              res |-> Did(IF fault = "existing"
                          THEN Err(item.filename, "Io", "os")
                          ELSE Ok(item, read_existing_sizes(item), TRUE),
                          <<"copy", "sizes">>)]
        ELSE copy_and_generate_thumb(item, d, th, mt, fault)

\* the closure run on one item by the parallel iterator
ProcessItem(it, d, th, mt, fault) ==
    LET item == from_path(it.name, mt[it.name], it.datetime)
    IN  IF item = NoItem
        THEN [dest |-> d, thumbs |-> th, res |-> Filtered]
        ELSE IF is_up_to_date(item, d, th, mt)
        THEN [dest |-> d, thumbs |-> th,
              res |-> Did(IF fault = "existing"
                          THEN Err(item.filename, "Io", "os")
                          ELSE Ok(item, read_existing_sizes(item), TRUE),
                          <<"sizes">>)]
        ELSE copy_and_generate_thumb(item, d, th, mt, fault)

\* the faults that have a place in the unit of work of one item
FaultsOf(it, d, th, mt) ==
    LET item == from_path(it.name, mt[it.name], it.datetime)
    IN  IF item = NoItem THEN {"none"}
        ELSE IF is_up_to_date(item, d, th, mt) THEN {"none", "existing"}
        ELSE IF is_animated(item) THEN {"none", "copy", "sizes"} \cup ToolFaults
        ELSE {"none", "copy", "image", "sizes"}

\* the faults met in the runs of whole builds: one way for each step of
\* the unit of work to fail
BuildFaults == {"none", "copy", "image", "exit", "existing"}

\* a slip: the elements are taken in the order the workers completed
Collect_ByCompletion(proc, fin) ==
    SelectSeq([k \in 1..Len(fin) |-> proc[fin[k]]], LAMBDA r : r.tag # "none")

\* the parallel collect: the elements kept by filter_map, in item order,
\* whatever the order fin in which the workers completed
Collect(proc, fin) == SelectSeq(proc, LAMBDA r : r.tag # "none")

\* a slip: an Err(..) is passed over
FirstErr_Ignore(rs) == 0

\* the index of the first Err(..) of a collected sequence, or 0
FirstErr(rs) ==
    IF \E i \in 1..Len(rs) : rs[i].tag = "err"
    THEN MinOf({i \in 1..Len(rs) : rs[i].tag = "err"})
    ELSE 0

\* a slip: only the regenerated assets are counted and summed
from_results_RegeneratedOnly(rs, skipped) ==
    LET regen == SelectSeq(rs, LAMBDA r : ~r.skipped)
    IN  [items_processed |-> Len(regen),
         items_skipped |-> skipped,
         total_media_size |-> SumSeq([i \in 1..Len(regen) |-> regen[i].media_size]),
         total_thumbs_size |-> SumSeq([i \in 1..Len(regen) |-> regen[i].thumb_size])]

\* BuildReport::from_results
from_results(rs, skipped) ==
    [items_processed |-> Len(rs),
     items_skipped |-> skipped,
     total_media_size |-> SumSeq([i \in 1..Len(rs) |-> rs[i].media_size]),
     total_thumbs_size |-> SumSeq([i \in 1..Len(rs) |-> rs[i].thumb_size])]

\* ------------------------------------------------------------------ Init
NoPre == [dest |-> [n \in Names |-> NoFile], thumbs |-> [t \in ThumbNames |-> NoFile]]

\* a build that has not got anywhere
FreshBuild ==
    /\ entries = <<>>
    /\ upd = NoUpd
    /\ items = <<>>
    /\ processed = <<>>
    /\ finished = <<>>
    /\ results = <<>>
    /\ items_skipped = 0
    /\ json = <<>>
    /\ rss = <<>>
    /\ report = NoReport
    /\ error = NoError
    /\ wrote = {}
    /\ store_log = <<>>
    /\ pre = NoPre

\* the site as Website::new leaves it: an empty media directory, no catalog
\* store, nothing built
InitDisk ==
    /\ dirExists = TRUE
    /\ listing = <<>>
    /\ meta = [n \in Names |-> NoMeta]
    /\ store = [exists |-> FALSE, media |-> <<>>]
    /\ dest = [n \in Names |-> NoFile]
    /\ thumbs = [t \in ThumbNames |-> NoFile]

Init ==
    /\ InitDisk
    /\ pc = "idle"
    /\ FreshBuild
    /\ repeat = FALSE
    /\ edits = 0
    /\ probe = NoProbe

\* ------------------------------------------------- the user, between builds
AtRest == pc \in {"idle", "done", "failed"}

\* one change to the site: the result of the last build is forgotten
Forget ==
    /\ pc' = "idle"
    /\ entries' = <<>>
    /\ upd' = NoUpd
    /\ items' = <<>>
    /\ processed' = <<>>
    /\ finished' = <<>>
    /\ results' = <<>>
    /\ items_skipped' = 0
    /\ json' = <<>>
    /\ rss' = <<>>
    /\ report' = NoReport
    /\ error' = NoError
    /\ wrote' = {}
    /\ store_log' = <<>>
    /\ pre' = NoPre
    /\ repeat' = FALSE
    /\ edits < MaxEdits
    /\ edits' = edits + 1
    /\ UNCHANGED probe

\* a file or directory is put into the media directory
AddEntry(name, m) ==
    /\ AtRest
    /\ dirExists
    /\ name \notin Range(listing)
    /\ Len(listing) < MaxFiles
    /\ m \in MetasFor(name)
    /\ listing' = Append(listing, name)
    /\ meta' = [meta EXCEPT ![name] = m]
    /\ Forget
    /\ UNCHANGED <<dirExists, store, dest, thumbs>>

\* an entry is deleted from the media directory
RemoveEntry(name) ==
    /\ AtRest
    /\ name \in Range(listing)
    /\ listing' = SelectSeq(listing, LAMBDA n : n # name)
    /\ meta' = [meta EXCEPT ![name] = NoMeta]
    /\ Forget
    /\ UNCHANGED <<dirExists, store, dest, thumbs>>

\* a file is rewritten: its content, EXIF block or timestamps change
ChangeEntry(name, m) ==
    /\ AtRest
    /\ name \in Range(listing)
    /\ m \in MetasFor(name)
    /\ m # meta[name]
    /\ m.kind = meta[name].kind
    /\ meta' = [meta EXCEPT ![name] = m]
    /\ Forget
    /\ UNCHANGED <<dirExists, listing, store, dest, thumbs>>

\* the media directory is deleted with all it holds
RemoveDir ==
    /\ AtRest
    /\ dirExists
    /\ dirExists' = FALSE
    /\ listing' = <<>>
    /\ meta' = [n \in Names |-> NoMeta]
    /\ Forget
    /\ UNCHANGED <<store, dest, thumbs>>

\* the media directory is created again
CreateDir ==
    /\ AtRest
    /\ ~dirExists
    /\ dirExists' = TRUE
    /\ Forget
    /\ UNCHANGED <<listing, meta, store, dest, thumbs>>

\* read_dir gives no order: two neighbours of the listing change place
Reorder(i) ==
    /\ AtRest
    /\ i \in 1..(Len(listing) - 1)
    /\ listing' = [listing EXCEPT ![i] = listing[i + 1], ![i + 1] = listing[i]]
    /\ UNCHANGED <<dirExists, meta, store, dest, thumbs>>
    /\ UNCHANGED buildVars
    /\ UNCHANGED <<edits, probe>>

\* a copied media file is deleted from the output
DeleteDest(name) ==
    /\ AtRest
    /\ name \in Range(listing)
    /\ dest[name] # NoFile
    /\ dest' = [dest EXCEPT ![name] = NoFile]
    /\ Forget
    /\ UNCHANGED <<dirExists, listing, meta, store, thumbs>>

\* a thumbnail is deleted from the output
DeleteThumb(name) ==
    /\ AtRest
    /\ name \in Range(listing)
    /\ ThumbOf(name) \in ThumbNames
    /\ thumbs[ThumbOf(name)] # NoFile
    /\ thumbs' = [thumbs EXCEPT ![ThumbOf(name)] = NoFile]
    /\ Forget
    /\ UNCHANGED <<dirExists, listing, meta, store, dest>>

\* ------------------------------------------------------- Website::build
\* `?` returns the error: the locals of the build are dropped with it
FailWith(step, kind, path, msg) ==
    /\ pc' = "failed"
    /\ error' = [step |-> step, kind |-> kind, path |-> path, msg |-> msg]
    /\ entries' = <<>>
    /\ upd' = NoUpd
    /\ items' = <<>>
    /\ processed' = <<>>
    /\ finished' = <<>>
    /\ results' = <<>>
    /\ items_skipped' = 0
    /\ json' = <<>>
    /\ rss' = <<>>
    /\ report' = NoReport
    /\ pre' = NoPre
    /\ repeat' = FALSE

\* the error of a filesystem call: its text is the io::Error
Fail(step, kind, path) == FailWith(step, kind, path, "os")

\* the three create_dir_all of the output tree; a build starts here
EnsureDirs(fault) ==
    /\ AtRest
    /\ wrote' = {}
    /\ store_log' = <<>>
    /\ IF fault
       THEN Fail("dirs", "Io", BuildPath)
       ELSE /\ pc' = "dirs"
            /\ error' = NoError
            /\ repeat' = (pc = "done")
            /\ pre' = [dest |-> dest, thumbs |-> thumbs]
            /\ entries' = <<>>
            /\ upd' = NoUpd
            /\ items' = <<>>
            /\ processed' = <<>>
            /\ finished' = <<>>
            /\ results' = <<>>
            /\ items_skipped' = 0
            /\ json' = <<>>
            /\ rss' = <<>>
            /\ report' = NoReport
    /\ UNCHANGED diskVars
    /\ UNCHANGED <<edits, probe>>

\* what MediaLibrary::new adds to the log: fs::read_to_string of the store
\* if it exists, nothing if it does not
LogOpen(log, st) == IF st.exists THEN Append(log, "read") ELSE log

\* a slip: the store is read again for every reconcile
LogSave_Reread(log) == log \o <<"read", "write">>

\* what MediaLibrary::save adds to the log: one fs::write of the store
LogSave(log) == Append(log, "write")

\* MediaLibrary::new
OpenLibrary(fault) ==
    /\ pc = "dirs"
    /\ IF fault
       THEN Fail("open", "MediaLibrary", StorePath)
       ELSE /\ pc' = "opened"
            /\ entries' = LibraryNew(store)
            /\ UNCHANGED <<error, upd, items, processed, finished, results,
                           items_skipped, json, rss, report, pre, repeat>>
    /\ store_log' = LogOpen(store_log, store)
    /\ UNCHANGED diskVars
    /\ UNCHANGED <<wrote, edits, probe>>

\* MediaLibrary::update_metadata, with its save: read_dir fails, or one of
\* the entries it gives is an Err(..), or the store cannot be written
UpdateMetadata(fault) ==
    /\ pc = "opened"
    /\ fault \in (IF dirExists THEN {"none", "read_dir", "entry", "save"}
                  ELSE {"none", "save"})
    /\ fault = "entry" => listing # <<>>
    /\ LET r == IF dirExists THEN UpdateExisting(entries, listing, meta)
                ELSE UpdateMissing(entries)
       IN  CASE fault \in {"read_dir", "entry"} ->
                  /\ Fail("reconcile", "MediaLibrary", MediaDirPath)
                  /\ UNCHANGED <<store, store_log>>
             [] fault = "save" ->
                  /\ Fail("reconcile", "MediaLibrary", StorePath)
                  /\ UNCHANGED <<store, store_log>>
             [] OTHER ->
                  /\ entries' = r.entries
                  /\ store' = [exists |-> TRUE, media |-> r.entries]
                  /\ upd' = r.report
                  /\ pc' = "reconciled"
                  /\ store_log' = LogSave(store_log)
                  /\ UNCHANGED <<error, items, processed, finished, results,
                                 items_skipped, json, rss, report, pre, repeat>>
    /\ UNCHANGED <<dirExists, listing, meta, dest, thumbs>>
    /\ UNCHANGED <<wrote, edits, probe>>

\* the filter_map over the directory entries: one (path, datetime) pair
\* for each entry that read_dir could read, in listing order
CollectItems(ls, unread, es) ==
    LET read == SelectSeq([i \in 1..Len(ls) |-> IF i \in unread THEN NoPath ELSE ls[i]],
                          LAMBDA n : n # NoPath)
    IN  [i \in 1..Len(read) |->
            [name |-> read[i], datetime |-> get_datetime(es, read[i])]]

\* a slip: a missing media directory is read like any other
ListItems_NoExistsCheck(fault, unread) ==
    /\ pc = "reconciled"
    /\ unread \subseteq 1..Len(listing)
    /\ IF fault \/ ~dirExists
       THEN /\ unread = {}
            /\ Fail("list", "Io", MediaDirPath)
       ELSE /\ items' = CollectItems(listing, unread, entries)
            /\ processed' = [i \in 1..Len(CollectItems(listing, unread, entries)) |-> Pending]
            /\ pc' = "scanning"
            /\ UNCHANGED <<error, entries, upd, finished, results,
                           items_skipped, json, rss, report, pre, repeat>>
    /\ UNCHANGED diskVars
    /\ UNCHANGED <<wrote, store_log, edits, probe>>

\* scan_and_copy_media up to the collected items: read_dir fails as a
\* whole (fault), or gives the entries of which those at the indices
\* unread are Err(..) and are passed over by `entry.ok()?`
ListItems(fault, unread) ==
    /\ pc = "reconciled"
    /\ unread \subseteq 1..Len(listing)
    /\ IF ~dirExists
       THEN /\ ~fault
            /\ unread = {}
            /\ pc' = "scanned"
            /\ UNCHANGED <<error, entries, upd, items, processed, finished,
                           results, items_skipped, json, rss, report, pre, repeat>>
       ELSE IF fault
       THEN /\ unread = {}
            /\ Fail("list", "Io", MediaDirPath)
       ELSE /\ items' = CollectItems(listing, unread, entries)
            /\ processed' = [i \in 1..Len(CollectItems(listing, unread, entries)) |-> Pending]
            /\ pc' = "scanning"
            /\ UNCHANGED <<error, entries, upd, finished, results,
                           items_skipped, json, rss, report, pre, repeat>>
    /\ UNCHANGED diskVars
    /\ UNCHANGED <<wrote, store_log, edits, probe>>

\* one worker runs the closure on one item, in any order
Worker(i, fault) ==
    /\ pc = "scanning"
    /\ i \in 1..Len(items)
    /\ processed[i].tag = "pending"
    /\ fault \in FaultsOf(items[i], dest, thumbs, meta)
    /\ LET r == ProcessItem(items[i], dest, thumbs, meta, fault)
       IN  /\ dest' = r.dest
           /\ thumbs' = r.thumbs
           /\ processed' = [processed EXCEPT ![i] = r.res]
    /\ finished' = Append(finished, i)
    /\ UNCHANGED <<dirExists, listing, meta, store>>
    /\ UNCHANGED <<pc, entries, upd, items, results, items_skipped,
                   json, rss, report, error, wrote, store_log,
                   pre, repeat, edits, probe>>

\* a slip: the first Err(..) is returned while other units are still running
Gather_Eager ==
    /\ pc = "scanning"
    /\ \/ \A i \in 1..Len(items) : processed[i].tag # "pending"
       \/ \E i \in 1..Len(items) : processed[i].tag = "err"
    /\ LET rs == Collect(processed, finished)
           e  == FirstErr(rs)
       IN  IF e # 0
           THEN FailWith("asset", rs[e].kind, rs[e].path, rs[e].msg)
           ELSE /\ results' = rs
                /\ items_skipped' = Cardinality({i \in 1..Len(rs) : rs[i].skipped})
                /\ json' = [i \in 1..Len(rs) |-> rs[i].entry]
                /\ rss' = [i \in 1..Len(rs) |-> rs[i].rss_item]
                /\ pc' = "scanned"
                /\ UNCHANGED <<error, entries, upd, items, processed, finished,
                               report, pre, repeat>>
    /\ UNCHANGED diskVars
    /\ UNCHANGED <<wrote, store_log, edits, probe>>

\* "Collect results, propagating any errors"
Gather ==
    /\ pc = "scanning"
    /\ \A i \in 1..Len(items) : processed[i].tag # "pending"
    /\ LET rs == Collect(processed, finished)
           e  == FirstErr(rs)
       IN  IF e # 0
           THEN FailWith("asset", rs[e].kind, rs[e].path, rs[e].msg)
           ELSE /\ results' = rs
                /\ items_skipped' = Cardinality({i \in 1..Len(rs) : rs[i].skipped})
                /\ json' = [i \in 1..Len(rs) |-> rs[i].entry]
                /\ rss' = [i \in 1..Len(rs) |-> rs[i].rss_item]
                /\ pc' = "scanned"
                /\ UNCHANGED <<error, entries, upd, items, processed, finished,
                               report, pre, repeat>>
    /\ UNCHANGED diskVars
    /\ UNCHANGED <<wrote, store_log, edits, probe>>

\* a slip: the page is written while assets are still being processed
WritePage_Early(fault) ==
    /\ pc \in {"scanning", "scanned"}
    /\ IF fault
       THEN Fail("page", "Io", PagePath) /\ UNCHANGED wrote
       ELSE /\ wrote' = wrote \cup {"index.html"}
            /\ pc' = "page"
            /\ finished' = <<>>
            /\ UNCHANGED <<error, entries, upd, items, processed, results,
                           items_skipped, json, rss, report, pre, repeat>>
    /\ UNCHANGED diskVars
    /\ UNCHANGED <<store_log, edits, probe>>

\* "Render index.html from template" and write it
WritePage(fault) ==
    /\ pc = "scanned"
    /\ IF fault
       THEN Fail("page", "Io", PagePath) /\ UNCHANGED wrote
       ELSE /\ wrote' = wrote \cup {"index.html"}
            /\ pc' = "page"
            /\ finished' = <<>>
            /\ UNCHANGED <<error, entries, upd, items, processed, results,
                           items_skipped, json, rss, report, pre, repeat>>
    /\ UNCHANGED diskVars
    /\ UNCHANGED <<store_log, edits, probe>>

\* "Render and write feed.xml"
WriteFeed(fault) ==
    /\ pc = "page"
    /\ IF fault
       THEN Fail("feed", "Io", FeedPath) /\ UNCHANGED wrote
       ELSE /\ wrote' = wrote \cup {"feed.xml"}
            /\ pc' = "feed"
            /\ UNCHANGED <<error, entries, upd, items, processed, finished,
                           results, items_skipped, json, rss, report, pre, repeat>>
    /\ UNCHANGED diskVars
    /\ UNCHANGED <<store_log, edits, probe>>

\* "Write static assets", then the report
WriteStatic(fault) ==
    /\ pc = "feed"
    /\ fault \in {"none", "style", "js"}
    /\ CASE fault = "style" ->
              /\ Fail("static", "Io", StylePath)
              /\ UNCHANGED wrote
         [] fault = "js" ->
              /\ Fail("static", "Io", ScriptPath)
              /\ wrote' = wrote \cup {"style.css"}
         [] OTHER ->
              /\ wrote' = wrote \cup {"style.css", "clutterlog.js"}
              /\ report' = from_results(results, items_skipped)
              /\ pc' = "done"
              /\ UNCHANGED <<error, entries, upd, items, processed, finished,
                             results, items_skipped, json, rss, pre, repeat>>
    /\ UNCHANGED diskVars
    /\ UNCHANGED <<store_log, edits, probe>>

\* ------------------------------------------------------------------ Next
Next ==
    \/ \E name \in Names : \E m \in EntryMetas : AddEntry(name, m)
    \/ \E name \in Names : RemoveEntry(name)
    \/ \E name \in Names : \E m \in EntryMetas : ChangeEntry(name, m)
    \/ RemoveDir
    \/ CreateDir
    \/ \E i \in 1..MaxFiles : Reorder(i)
    \/ \E name \in Names : DeleteDest(name)
    \/ \E name \in Names : DeleteThumb(name)
    \/ \E fault \in BOOLEAN : EnsureDirs(fault)
    \/ \E fault \in BOOLEAN : OpenLibrary(fault)
    \/ \E fault \in {"none", "read_dir", "entry", "save"} : UpdateMetadata(fault)
    \/ \E fault \in BOOLEAN : \E unread \in SUBSET (1..MaxFiles) :
          ListItems(fault, unread)
    \/ \E i \in 1..MaxFiles : \E fault \in BuildFaults : Worker(i, fault)
    \/ Gather
    \/ \E fault \in BOOLEAN : WritePage(fault)
    \/ \E fault \in BOOLEAN : WriteFeed(fault)
    \/ \E fault \in {"none", "style", "js"} : WriteStatic(fault)

Spec == Init /\ [][Next]_vars

\* --------------------------------------- date resolution on its own
\* every file a date can be asked of: any name, any EXIF tags, any times
InitDate ==
    /\ InitDisk
    /\ pc = "idle"
    /\ FreshBuild
    /\ repeat = FALSE
    /\ edits = 0
    /\ probe \in [name : Names, tags : TagSeqs, created : OptTicks,
                   modified : OptTicks, out : {NoTime}]

\* extract_oldest_date is run on the file
ResolveDate ==
    /\ probe.out = NoTime
    /\ probe' = [probe EXCEPT !.out = extract_oldest_date(
                     probe.name, probe.tags, probe.created, probe.modified)]
    /\ UNCHANGED diskVars
    /\ UNCHANGED buildVars
    /\ UNCHANGED edits

NextDate == ResolveDate

SpecDate == InitDate /\ [][NextDate]_vars

\* ----------------------------------------- classification on its own
\* a site on which nothing has run
Untouched ==
    /\ InitDisk
    /\ pc = "idle"
    /\ FreshBuild
    /\ repeat = FALSE
    /\ edits = 0

\* the spellings of an extension a path of the media directory can have
Spellings == {"png", "PNG", "jpg", "JPG", "jpeg", "Jpeg", "webp", "WebP",
              "gif", "GIF", "webm", "WEBM", "mp4", "Mp4",
              "txt", "TXT", "tiff", "Tiff", "bmp", "toml", NoExt}

\* any path: a regular file, a directory or nothing at all, under any
\* spelling of an extension, cataloged or not
InitClassify ==
    /\ Untouched
    /\ probe \in [name : [stem : {"a"}, ext : Spellings],
                   kind : {"file", "dir", "none"},
                   datetime : {NoTime, 1},
                   item : {NoItem}, listed : {FALSE}, done : {FALSE}]

\* the path is put to WebsiteMedia::from_path and to the filter of
\* MediaLibrary::update_metadata
Classify ==
    /\ ~probe.done
    /\ LET m == [NoMeta EXCEPT !.kind = probe.kind, !.modified = MaxTick]
       IN  probe' = [probe EXCEPT
                       !.item = from_path(probe.name, m, probe.datetime),
                       !.listed = current_files(<<probe.name>>,
                                    [n \in {probe.name} |-> m]) # <<>>,
                       !.done = TRUE]
    /\ UNCHANGED diskVars
    /\ UNCHANGED buildVars
    /\ UNCHANGED edits

NextClassify == Classify

SpecClassify == InitClassify /\ [][NextClassify]_vars

\* ------------------------------------------------ captions on their own
\* a media file a.jpg with anything at a.txt
InitCaption ==
    /\ Untouched
    /\ probe \in [stem : {"a"}, sidecar : Sidecars, item : {NoItem},
                   done : {FALSE}]

\* WebsiteMedia::from_path is run on the media file
ResolveCaption ==
    /\ ~probe.done
    /\ LET m == [NoMeta EXCEPT !.kind = "file", !.modified = 1,
                               !.sidecar = probe.sidecar]
       IN  probe' = [probe EXCEPT
                       !.item = from_path([stem |-> probe.stem, ext |-> "jpg"],
                                          m, NoTime),
                       !.done = TRUE]
    /\ UNCHANGED diskVars
    /\ UNCHANGED buildVars
    /\ UNCHANGED edits

NextCaption == ResolveCaption

SpecCaption == InitCaption /\ [][NextCaption]_vars

\* ------------------------------------------------ cropping on its own
\* the sides an image can have: small ones and the largest ones
Dims == 1..MaxDim \cup {MaxSide + 1 - d : d \in 1..MaxDim}
NoThumb == [x |-> 0, y |-> 0, crop_w |-> 0, crop_h |-> 0,
            underflow |-> FALSE, width |-> 0, height |-> 0]

\* a decoded image of any width and height
InitCrop ==
    /\ Untouched
    /\ probe \in [width : Dims, height : Dims, thumb : {NoThumb},
                   done : {FALSE}]

\* generate_image_thumb crops and resizes the image to THUMB_SIZE
CropImage ==
    /\ ~probe.done
    /\ probe' = [probe EXCEPT
                   !.thumb = center_crop_resize(probe.width, probe.height,
                                                THUMB_SIZE),
                   !.done = TRUE]
    /\ UNCHANGED diskVars
    /\ UNCHANGED buildVars
    /\ UNCHANGED edits

NextCrop == CropImage

SpecCrop == InitCrop /\ [][NextCrop]_vars

\* ------------------------------------------- the catalog on its own
\* the stores a catalog can be loaded from: none, or any [[media]] tables
\* that toml::from_str accepts, written by the program or by hand
StoredEntries == [name : Names, datetime : {EpochSentinel}]
Stores ==
    {[exists |-> FALSE, media |-> <<>>]}
    \cup {[exists |-> TRUE, media |-> es] :
            es \in UNION {[1..k -> StoredEntries] : k \in 0..MaxStore}}

\* a site with an empty media directory and any store
InitCatalog ==
    /\ dirExists = TRUE
    /\ listing = <<>>
    /\ meta = [n \in Names |-> NoMeta]
    /\ store \in Stores
    /\ dest = [n \in Names |-> NoFile]
    /\ thumbs = [t \in ThumbNames |-> NoFile]
    /\ pc = "idle"
    /\ FreshBuild
    /\ repeat = FALSE
    /\ edits = 0
    /\ probe = NoProbe

\* the update command: MediaLibrary::new, then update_metadata with its
\* save; the report is printed, or the error is and the process exits
UpdateCommand(fault) ==
    /\ AtRest
    /\ fault \in (IF dirExists
                  THEN {"none", "open", "read_dir", "entry", "save"}
                  ELSE {"none", "open", "save"})
    /\ fault = "entry" => listing # <<>>
    /\ LET lib == LibraryNew(store)
           r == IF dirExists THEN UpdateExisting(lib, listing, meta)
                ELSE UpdateMissing(lib)
       IN  CASE fault = "open" ->
                  /\ Fail("open", "MediaLibrary", StorePath)
                  /\ UNCHANGED store
                  /\ store_log' = LogOpen(<<>>, store)
             [] fault \in {"read_dir", "entry"} ->
                  /\ Fail("reconcile", "MediaLibrary", MediaDirPath)
                  /\ UNCHANGED store
                  /\ store_log' = LogOpen(<<>>, store)
             [] fault = "save" ->
                  /\ Fail("reconcile", "MediaLibrary", StorePath)
                  /\ UNCHANGED store
                  /\ store_log' = LogOpen(<<>>, store)
             [] OTHER ->
                  /\ entries' = r.entries
                  /\ store' = [exists |-> TRUE, media |-> r.entries]
                  /\ upd' = r.report
                  /\ pc' = "done"
                  /\ store_log' = LogSave(LogOpen(<<>>, store))
                  /\ error' = NoError
                  /\ UNCHANGED <<items, processed, finished, results,
                                 items_skipped, json, rss, report, pre, repeat>>
    /\ UNCHANGED <<dirExists, listing, meta, dest, thumbs>>
    /\ UNCHANGED <<wrote, edits, probe>>

NextCatalog ==
    \/ \E name \in Names : \E m \in EntryMetas : AddEntry(name, m)
    \/ \E name \in Names : RemoveEntry(name)
    \/ \E i \in 1..MaxFiles : Reorder(i)
    \/ RemoveDir
    \/ CreateDir
    \/ \E fault \in {"none", "open", "read_dir", "entry", "save"} :
          UpdateCommand(fault)

SpecCatalog == InitCatalog /\ [][NextCatalog]_vars

\* --------------------------------------- the external tool on its own
\* the animated files a build can meet, none of them built before
AnimatedNames == [stem : {"a"}, ext : {"gif", "GIF", "webm", "WEBM",
                                        "mp4", "Mp4"}]

\* one animated file, put through two builds that go wrong in any two ways
InitTool ==
    /\ Untouched
    /\ probe \in [name : AnimatedNames,
                   first : UnitFaults \ {"image", "existing"},
                   second : UnitFaults \ {"image", "existing"},
                   res : {<<Pending, Pending>>},
                   aborted : {<<FALSE, FALSE>>}, done : {FALSE}]

\* the unit of work of the file under a fault, and whether the gather
\* loop of scan_and_copy_media returns its Err(..)
ToolRun(name, fault) ==
    LET m == [NoMeta EXCEPT !.kind = "file", !.modified = 1]
        item == from_path(name, m, NoTime)
        r == ProcessItem([name |-> name, datetime |-> NoTime],
                         [n \in {name} |-> NoFile],
                         [t \in {thumb_filename(item)} |-> NoFile],
                         [n \in {name} |-> m], fault).res
    IN  [res |-> r, aborted |-> FirstErr(Collect(<<r>>, <<1>>)) # 0]

\* both builds process the file
RunTool ==
    /\ ~probe.done
    /\ LET a == ToolRun(probe.name, probe.first)
           b == ToolRun(probe.name, probe.second)
       IN  probe' = [probe EXCEPT !.res = <<a.res, b.res>>,
                                  !.aborted = <<a.aborted, b.aborted>>,
                                  !.done = TRUE]
    /\ UNCHANGED diskVars
    /\ UNCHANGED buildVars
    /\ UNCHANGED edits

NextTool == RunTool

SpecTool == InitTool /\ [][NextTool]_vars

\* ------------------------------------------------ escaping on its own
\* the characters a caption is drawn from; "n" stands for any letter
EscAlphabet == {"\\", "\"", "\n", "\r", "<", ">", "&", "n"}
EscTexts == UNION {[1..k -> EscAlphabet] : k \in 0..MaxStrLen}

\* an asset with any text as its title or as its description
InitEscape ==
    /\ Untouched
    /\ probe \in [field : {"title", "description"}, text : EscTexts,
                   entry : {to_json_entry(NoItem)}, done : {FALSE}]

\* the asset of the probe
ProbeItem(field, text) ==
    IF field = "title" THEN [NoItem EXCEPT !.title = text]
    ELSE [NoItem EXCEPT !.description = text]

\* WebsiteMedia::to_json_entry is run on the asset
RenderEntry ==
    /\ ~probe.done
    /\ probe' = [probe EXCEPT
                   !.entry = to_json_entry(
                                ProbeItem(probe.field, probe.text)),
                   !.done = TRUE]
    /\ UNCHANGED diskVars
    /\ UNCHANGED buildVars
    /\ UNCHANGED edits

NextEscape == RenderEntry

SpecEscape == InitEscape /\ [][NextEscape]_vars

\* ------------------------------------------- builds that must return
\* a unit of work that has copied its file, has started ffmpeg with
\* Command::output() and waits for the child to exit
Waiting == [Pending EXCEPT !.msg = "waiting"]

\* a regular file of that name, last modified at tick 1
PlainFile(name) ==
    CHOOSE m \in MetasFor(name) : m.kind = "file" /\ m.modified = 1

\* a site never built, holding an animated file alone or after an image
InitLive ==
    /\ dirExists = TRUE
    /\ listing \in {<<[stem |-> "c", ext |-> "GIF"]>>,
                     <<[stem |-> "a", ext |-> "jpg"],
                       [stem |-> "c", ext |-> "GIF"]>>}
    /\ meta = [n \in Names |-> IF n \in Range(listing) THEN PlainFile(n)
                                ELSE NoMeta]
    /\ store = [exists |-> FALSE, media |-> <<>>]
    /\ dest = [n \in Names |-> NoFile]
    /\ thumbs = [t \in ThumbNames |-> NoFile]
    /\ pc = "idle"
    /\ FreshBuild
    /\ repeat = FALSE
    /\ edits = 0
    /\ probe = NoProbe

\* a worker runs its closure up to the call of ffmpeg: the file is copied
\* and the child is started
SpawnTool(i) ==
    /\ pc = "scanning"
    /\ i \in 1..Len(items)
    /\ processed[i] = Pending
    /\ LET item == from_path(items[i].name, meta[items[i].name],
                             items[i].datetime)
       IN  /\ item # NoItem
           /\ ~is_up_to_date(item, dest, thumbs, meta)
           /\ is_animated(item)
           /\ dest' = [dest EXCEPT
                         ![item.filename] = meta[item.filename].modified]
    /\ processed' = [processed EXCEPT ![i] = Waiting]
    /\ UNCHANGED <<dirExists, listing, meta, store, thumbs>>
    /\ UNCHANGED <<pc, entries, upd, items, finished, results, items_skipped,
                   json, rss, report, error, wrote, store_log,
                   pre, repeat, edits, probe>>

\* a slip: the child never exits
ToolExits_Never(i, fault) ==
    /\ FALSE
    /\ UNCHANGED vars

\* the child exits, with success or not, and the worker finishes its unit
ToolExits(i, fault) ==
    /\ pc = "scanning"
    /\ i \in 1..Len(items)
    /\ processed[i] = Waiting
    /\ fault \in {"none", "exit", "sizes"}
    /\ LET item == from_path(items[i].name, meta[items[i].name],
                             items[i].datetime)
           r == copy_and_generate_thumb(item, dest, thumbs, meta, fault)
       IN  /\ dest' = r.dest
           /\ thumbs' = r.thumbs
           /\ processed' = [processed EXCEPT ![i] = r.res]
    /\ finished' = Append(finished, i)
    /\ UNCHANGED <<dirExists, listing, meta, store>>
    /\ UNCHANGED <<pc, entries, upd, items, results, items_skipped,
                   json, rss, report, error, wrote, store_log,
                   pre, repeat, edits, probe>>

\* a worker runs a whole unit that does not wait
Work(i, fault) ==
    /\ pc = "scanning"
    /\ i \in 1..Len(processed)
    /\ processed[i] = Pending
    /\ Worker(i, fault)

\* the steps of a build once it has started
BuildStep ==
    \/ \E fault \in BOOLEAN : OpenLibrary(fault)
    \/ \E fault \in {"none", "read_dir", "entry", "save"} : UpdateMetadata(fault)
    \/ \E fault \in BOOLEAN : \E unread \in SUBSET (1..MaxFiles) :
          ListItems(fault, unread)
    \/ Gather
    \/ \E fault \in BOOLEAN : WritePage(fault)
    \/ \E fault \in BOOLEAN : WriteFeed(fault)
    \/ \E fault \in {"none", "style", "js"} : WriteStatic(fault)

NextLive ==
    \/ \E fault \in BOOLEAN : EnsureDirs(fault)
    \/ BuildStep
    \/ \E i \in 1..MaxFiles : \E fault \in BuildFaults : Work(i, fault)
    \/ \E i \in 1..MaxFiles : SpawnTool(i)
    \/ \E i \in 1..MaxFiles : \E fault \in {"none", "exit", "sizes"} :
          ToolExits(i, fault)

\* the thread of build runs on; the pool runs every unit it was given;
\* every child that was started exits
Fairness ==
    /\ WF_vars(BuildStep)
    /\ \A i \in 1..MaxFiles :
          /\ WF_vars(\E fault \in BuildFaults : Work(i, fault))
          /\ WF_vars(SpawnTool(i))
          /\ WF_vars(\E fault \in {"none", "exit", "sizes"} : ToolExits(i, fault))

SpecLive == InitLive /\ [][NextLive]_vars /\ Fairness

\* ------------------------------------- destination paths on their own
\* the names two entries of one listing can have
PathNames == [stem : {"a", "b"}, ext : Spellings]
NoWrites == [classified |-> FALSE, media |-> NoPath, thumb |-> NoPath]

\* the two paths under build/media that the unit of work of a regular
\* file writes: dest_file and thumb_path of copy_and_generate_thumb
WritesOf(name) ==
    LET item == from_path(name, [NoMeta EXCEPT !.kind = "file",
                                               !.modified = 1], NoTime)
    IN  IF item = NoItem THEN NoWrites
        ELSE [classified |-> TRUE, media |-> item.filename,
              thumb |-> thumb_filename(item)]

\* two regular files of any two names in the media directory
InitPaths ==
    /\ Untouched
    /\ probe \in [first : PathNames, second : PathNames,
                   writes : {<<NoWrites, NoWrites>>}, done : {FALSE}]

\* the workers take one file each
PlanWrites ==
    /\ ~probe.done
    /\ probe' = [probe EXCEPT
                   !.writes = <<WritesOf(probe.first), WritesOf(probe.second)>>,
                   !.done = TRUE]
    /\ UNCHANGED diskVars
    /\ UNCHANGED buildVars
    /\ UNCHANGED edits

NextPaths == PlanWrites

SpecPaths == InitPaths /\ [][NextPaths]_vars

\* ================================================================ claims
\* the supported regular files of the media directory
SupportedListed ==
    {n \in Range(listing) :
        meta[n].kind = "file" /\ extension(n) \in SUPPORTED_EXTENSIONS}
NamesOf(es) == {es[i].name : i \in 1..Len(es)}
\* the item passes classification
Classified(it) == from_path(it.name, meta[it.name], it.datetime) # NoItem
\* the build has gathered its results without an error
Gathered == pc \in {"scanned", "page", "feed", "done"}
\* the outputs of a name were both there, and made from the source as it
\* is now, when the build started
FreshBefore(n) ==
    /\ pre.dest[n] # NoFile
    /\ pre.thumbs[ThumbOf(n)] # NoFile
    /\ pre.dest[n] = meta[n].modified
    /\ pre.thumbs[ThumbOf(n)] = meta[n].modified
AllOutputs == {"index.html", "feed.xml", "style.css", "clutterlog.js"}
\* the listed entries that the listing step of this build could not read
Unread == Range(listing) \ {items[i].name : i \in 1..Len(items)}

\* C1: a build that follows a successful build, with nothing changed in
\* between, reconciles with added = 0 and removed = 0, skips every
\* classified asset and regenerates no file
C1_Idempotent ==
    /\ (repeat /\ (Gathered \/ pc \in {"reconciled", "scanning"})) => upd = NoUpd
    /\ (repeat /\ pc = "done") =>
          /\ items_skipped = Len(results)
          /\ report.items_skipped = report.items_processed
          /\ report.items_processed =
                Cardinality({i \in 1..Len(items) : Classified(items[i])})
          /\ \A i \in 1..Len(processed) :
                processed[i].tag = "ok" => processed[i].skipped
          /\ dest = pre.dest
          /\ thumbs = pre.thumbs

\* C2: reconciling catalog C against an existing media directory whose
\* supported regular files are L reports added = |L \ names(C)| and
\* removed = |names(C) \ L|, and leaves exactly L cataloged and persisted
C2_Reconcile ==
    [][(pc = "opened" /\ pc' = "reconciled" /\ dirExists) =>
          /\ upd'.added = Cardinality(SupportedListed \ NamesOf(entries))
          /\ upd'.removed = Cardinality(NamesOf(entries) \ SupportedListed)
          /\ NamesOf(entries') = SupportedListed
          /\ Len(entries') = Cardinality(SupportedListed)
          /\ store'.exists
          /\ store'.media = entries']_vars

\* one reconciliation that both adds a file and removes another
C2_Witness ==
    /\ pc = "reconciled"
    /\ dirExists
    /\ upd = [added |-> 1, removed |-> 1]
    /\ Len(entries) = 1

\* C3: the datetime cataloged for a filename never changes while the
\* filename stays in the catalog, whatever happens to the file
C3_NeverRewritten ==
    [][/\ \A i \in 1..Len(store.media) : \A j \in 1..Len(store'.media) :
             store.media[i].name = store'.media[j].name =>
                 store.media[i].datetime = store'.media[j].datetime
       /\ pc = "opened" =>
             \A i \in 1..Len(entries) : \A j \in 1..Len(entries') :
                 entries[i].name = entries'[j].name =>
                     entries[i].datetime = entries'[j].datetime]_vars

\* a reconciliation has kept the entry of a listed file whose date would
\* now resolve to something else
C3_Witness ==
    /\ pc = "reconciled"
    /\ upd = NoUpd
    /\ \E i \in 1..Len(store.media) :
          /\ store.media[i].name \in SupportedListed
          /\ store.media[i].datetime # NewEntryDate(store.media[i].name, meta)

\* C4: a build ends in a report or in an error, never both; a failure of
\* the catalog or of any one asset ends it in an error, and that build has
\* written none of the page, the feed and the static assets
C4_AllOrNothing ==
    /\ pc = "done" => error = NoError
    /\ pc = "failed" => (error # NoError /\ report = NoReport)
    /\ (\E i \in 1..Len(processed) : processed[i].tag = "err") =>
          pc = "scanning"
    /\ (pc = "failed" /\ error.step \in {"open", "reconcile", "list", "asset"}) =>
          wrote = {}

\* a build failed on one asset with the copy of another asset in place
C4_Witness ==
    /\ pc = "failed"
    /\ error.step = "asset"
    /\ \E n \in Range(listing) :
          n # error.path /\ dest[n] # NoFile /\ dest[n] = meta[n].modified
    /\ wrote = {}

\* C5: whatever the order in which the workers complete, the JSON
\* fragments and the feed items are those of the classified entries in
\* the order of the directory listing, the k-th of each for the same asset
C5_OrderedGather ==
    /\ pc = "scanning" =>
          LET read == SelectSeq(listing, LAMBDA n : n \notin Unread)
          IN  /\ Len(items) = Len(read)
              /\ \A i \in 1..Len(items) : items[i].name = read[i]
    /\ Gathered =>
          LET cls == SelectSeq(items, Classified)
          IN  /\ Len(json) = Len(cls)
              /\ Len(rss) = Len(cls)
              /\ \A k \in 1..Len(cls) :
                    /\ json[k].image_url = cls[k].name
                    /\ rss[k].link = cls[k].name

\* two assets gathered after the second one completed first
C5_Witness ==
    /\ pc = "scanned"
    /\ finished = <<2, 1>>
    /\ Len(json) = 2

\* C6: an asset is skipped only if its destination copy and its thumbnail
\* were both there and made from the source as it is now; otherwise it is
\* regenerated and not counted as skipped
C6_Staleness ==
    /\ \A i \in 1..Len(processed) :
          processed[i].tag = "ok" =>
              LET n == processed[i].path
              IN  /\ processed[i].skipped <=> FreshBefore(n)
                  /\ ~processed[i].skipped =>
                        /\ dest[n] = meta[n].modified
                        /\ thumbs[ThumbOf(n)] = meta[n].modified
    /\ Gathered =>
          items_skipped =
              Cardinality({i \in 1..Len(results) : FreshBefore(results[i].path)})

\* a build skipped one asset and regenerated another whose thumbnail had
\* gone missing
C6_Witness ==
    /\ pc = "done"
    /\ items_skipped = 1
    /\ \E i \in 1..Len(processed) :
          /\ processed[i].tag = "ok"
          /\ ~processed[i].skipped
          /\ pre.dest[processed[i].path] = meta[processed[i].path].modified
          /\ pre.thumbs[ThumbOf(processed[i].path)] = NoFile

\* C9: reconciling against a missing media directory clears the n
\* entries, persists the empty catalog and reports added = 0, removed = n;
\* it fails only if the store cannot be written
C9_MissingDir ==
    [][/\ (pc = "opened" /\ ~dirExists /\ pc' = "reconciled") =>
             /\ entries' = <<>>
             /\ store' = [exists |-> TRUE, media |-> <<>>]
             /\ upd' = [added |-> 0, removed |-> Len(entries)]
       /\ (pc = "opened" /\ ~dirExists /\ pc' = "failed") =>
             error'.path = StorePath]_vars

\* two entries cleared because the media directory is gone
C9_Witness ==
    /\ pc = "reconciled"
    /\ ~dirExists
    /\ upd = [added |-> 0, removed |-> 2]
    /\ store = [exists |-> TRUE, media |-> <<>>]

\* C10: a build of a site without a media directory reports nothing
\* processed or skipped and no bytes, emits the empty JSON array and no
\* feed item, and writes the page, the feed and the static assets; the
\* missing directory is never the cause of an error
C10_NoMediaDir ==
    /\ (~dirExists /\ pc = "done") =>
          /\ report = [items_processed |-> 0, items_skipped |-> 0,
                        total_media_size |-> 0, total_thumbs_size |-> 0]
          /\ json = <<>>
          /\ rss = <<>>
          /\ wrote = AllOutputs
    /\ (~dirExists /\ pc = "failed") =>
          /\ error.step \notin {"list", "asset"}
          /\ error.path # MediaDirPath

\* a site that had media built before is built without its media directory
C10_Witness ==
    /\ pc = "done"
    /\ ~dirExists
    /\ store = [exists |-> TRUE, media |-> <<>>]
    /\ \E n \in Names : dest[n] # NoFile

\* the date of the probed file has been resolved
Resolved == probe.out # NoTime
\* the embedded capture timestamp of the probed file, or NoTime
ProbeExif == extract_exif_date(probe.name, probe.tags)
\* the timestamps of the probed file that were obtainable
ProbeTimes == {t \in {ProbeExif, probe.created, probe.modified} : t # NoTime}
\* the second a tick lies in
SecondOf(t) == t \div TicksPerSec
Earliest(S) == CHOOSE x \in S : \A y \in S : x <= y

\* C7 as stated: the stored datetime is the earliest obtainable candidate,
\* and it is the epoch sentinel exactly when no candidate was obtainable
C7_Original ==
    Resolved =>
        /\ (ProbeTimes # {} => probe.out = SecondOf(Earliest(ProbeTimes)))
        /\ (probe.out = EpochSentinel <=> ProbeTimes = {})

\* C7 (amended): the stored datetime is the second of the earliest
\* obtainable candidate among the embedded, creation and modification
\* times; it is the epoch sentinel when none was obtainable, and otherwise
\* only when the earliest candidate itself lies in the first second of
\* the epoch
C7_OldestDate ==
    Resolved =>
        /\ (ProbeTimes # {} => probe.out = SecondOf(Earliest(ProbeTimes)))
        /\ (ProbeTimes = {} => probe.out = EpochSentinel)
        /\ (probe.out = EpochSentinel =>
                \/ ProbeTimes = {}
                \/ Earliest(ProbeTimes) < TicksPerSec)

\* all three candidates obtainable, the creation time strictly the
\* earliest and after the epoch second
C7_Witness ==
    /\ Resolved
    /\ ProbeExif # NoTime
    /\ probe.created # NoTime
    /\ probe.modified # NoTime
    /\ probe.created < ProbeExif
    /\ probe.created < probe.modified
    /\ probe.out = SecondOf(probe.created)
    /\ probe.out # EpochSentinel

\* C8 as stated: a decodable embedded timestamp is the resolved datetime,
\* whatever the filesystem times are
C8_Original ==
    (Resolved /\ ProbeExif # NoTime) => probe.out = SecondOf(ProbeExif)

\* C8 (amended): a decodable embedded timestamp is the resolved datetime
\* whenever no obtainable filesystem time is earlier than it; when a
\* creation or modification time is earlier, the resolved datetime is that
\* earlier time and not the embedded one
C8_EmbeddedUnlessEarlier ==
    (Resolved /\ ProbeExif # NoTime) =>
        LET fs == {t \in {probe.created, probe.modified} : t # NoTime}
        IN  /\ (\A t \in fs : t >= ProbeExif) => probe.out = SecondOf(ProbeExif)
            /\ (\E t \in fs : t < ProbeExif) =>
                    /\ probe.out = SecondOf(Earliest(fs))
                    /\ probe.out < SecondOf(ProbeExif)

\* an embedded timestamp with both filesystem times later than it
C8_Witness ==
    /\ Resolved
    /\ ProbeExif # NoTime
    /\ probe.created # NoTime /\ probe.created > ProbeExif
    /\ probe.modified # NoTime /\ probe.modified > ProbeExif
    /\ probe.out = SecondOf(ProbeExif)

\* C11 as stated: a build goes on past the listing step, and returns a
\* report, only if every entry of the media directory could be read
C11_Original ==
    pc \in {"scanning", "scanned", "page", "feed", "done"} => Unread = {}

\* the number of items that are regular files with a supported extension
ItemsAccepted == Cardinality({i \in 1..Len(items) : items[i].name \in SupportedListed})

\* C12: an entry that is not a regular file or has an unsupported
\* extension is never processed and never the cause of an error; the JSON
\* fragments, the feed items, the results and the counts and byte totals
\* of the report are those of the entries that pass classification
C12_SilentExclusion ==
    /\ \A i \in 1..Len(processed) :
          items[i].name \notin SupportedListed =>
              processed[i].tag \in {"pending", "none"}
    /\ (pc = "failed" /\ error.step = "asset") => error.path \in SupportedListed
    /\ Gathered =>
          /\ Len(json) = ItemsAccepted
          /\ Len(rss) = ItemsAccepted
          /\ Len(results) = ItemsAccepted
          /\ \A k \in 1..Len(results) : results[k].path \in SupportedListed
          /\ items_skipped <= ItemsAccepted
    /\ pc = "done" =>
          /\ report.items_processed = ItemsAccepted
          /\ report.items_skipped <= ItemsAccepted
          /\ report.total_media_size =
                SumSeq([k \in 1..Len(results) |-> MediaSize(results[k].path)])
          /\ report.total_thumbs_size = ItemsAccepted * ThumbSize

\* a build of one asset beside an entry that fails classification
C12_Witness ==
    /\ pc = "done"
    /\ Len(items) = 2
    /\ Len(json) = 1
    /\ report.items_processed = 1

\* the spellings that equal a supported extension when case is ignored
SupportedSpellings == {"png", "PNG", "jpg", "JPG", "jpeg", "Jpeg", "webp", "WebP",
                       "gif", "GIF", "webm", "WEBM", "mp4", "Mp4"}
\* and those that equal gif, webm or mp4
AnimatedSpellings == {"gif", "GIF", "webm", "WEBM", "mp4", "Mp4"}

Inked(t) == {i \in 1..Len(t) : t[i] \notin White}

\* a text without the white space around it
Trimmed(t) ==
    IF Inked(t) = {} THEN <<>>
    ELSE SubSeq(t, CHOOSE i \in Inked(t) : \A j \in Inked(t) : i <= j,
                   CHOOSE i \in Inked(t) : \A j \in Inked(t) : i >= j)

\* where the newlines of a text are, and how many lines it has
Breaks(t) == {i \in 1..Len(t) : t[i] = "\n"}
LineCount(t) ==
    Cardinality(Breaks(t))
      + (IF t # <<>> /\ t[Len(t)] # "\n" THEN 1 ELSE 0)
FirstBreak(t) == CHOOSE i \in Breaks(t) : \A j \in Breaks(t) : i <= j
\* the first line, and all that follows its newline
FirstLine(t) == IF Breaks(t) = {} THEN t ELSE SubSeq(t, 1, FirstBreak(t) - 1)
AfterFirstLine(t) ==
    IF Breaks(t) = {} THEN <<>> ELSE SubSeq(t, FirstBreak(t) + 1, Len(t))

\* the text of a sidecar the build could read
SidecarText(sc) == IF sc.kind = "file" /\ sc.readable THEN sc.text ELSE <<>>

\* the lines of a text after the first, joined by newline
RestJoined(t) ==
    LET rest == AfterFirstLine(t)
    IN  IF rest # <<>> /\ rest[Len(rest)] = "\n"
        THEN SubSeq(rest, 1, Len(rest) - 1) ELSE rest

C15_Geometry ==
    probe.done =>
      LET w == probe.width
          h == probe.height
          e == IF w < h THEN w ELSE h
          th == probe.thumb
      IN  /\ th.crop_w = e /\ th.crop_h = e
          /\ th.x = (w - e) \div 2 /\ th.y = (h - e) \div 2
          /\ ~th.underflow
          /\ th.x >= 0 /\ th.y >= 0
          /\ th.x + e <= w /\ th.y + e <= h
          /\ th.width = 350 /\ th.height = 350

\* a wide image of odd surplus has been cropped off-centre by the
\* integer division
C15_Witness ==
    /\ probe.done
    /\ probe.width = 8 /\ probe.height = 3
    /\ probe.thumb.x = 2 /\ probe.thumb.y = 0
    /\ probe.thumb.crop_w = 3
    /\ probe.thumb.width = THUMB_SIZE
\* --------------------------------------------------------------- C16
\* the characters escape_js is to escape
Escaped == {"\\", "\"", "\n", "\r"}
NotJson == [ok |-> FALSE, text |-> <<>>]

RECURSIVE JsonUnescape(_)
\* the text a JSON string body stands for: a backslash with the character
\* after it is one character, and a bare quote, newline or carriage
\* return is not JSON
JsonUnescape(t) ==
    IF t = <<>> THEN [ok |-> TRUE, text |-> <<>>]
    ELSE IF Head(t) = "\\"
    THEN IF Len(t) < 2 \/ t[2] \notin {"\\", "\"", "n", "r"} THEN NotJson
         ELSE LET c == CASE t[2] = "n" -> "\n"
                         [] t[2] = "r" -> "\r"
                         [] OTHER -> t[2]
                  rest == JsonUnescape(SubSeq(t, 3, Len(t)))
              IN  IF rest.ok THEN [ok |-> TRUE, text |-> <<c>> \o rest.text]
                  ELSE NotJson
    ELSE IF Head(t) \in {"\"", "\n", "\r"} THEN NotJson
    ELSE LET rest == JsonUnescape(Tail(t))
         IN  IF rest.ok THEN [ok |-> TRUE, text |-> <<Head(t)>> \o rest.text]
             ELSE NotJson

\* C16: the title or description emitted in the JSON fragment unescapes,
\* by the JSON string rules, to the original text; only backslash, double
\* quote, newline and carriage return are escaped, each by one added
\* backslash; and no other text gives the same escaped output
C16_RoundTrip ==
    probe.done =>
      LET out == probe.entry[probe.field]
          plain(c) == c \notin Escaped
      IN  /\ JsonUnescape(out) = [ok |-> TRUE, text |-> probe.text]
          /\ SelectSeq(out, LAMBDA c : c \in {"<", ">", "&"})
               = SelectSeq(probe.text, LAMBDA c : c \in {"<", ">", "&"})
          /\ Len(out) = Len(probe.text)
               + Cardinality({i \in 1..Len(probe.text) :
                                ~plain(probe.text[i])})
          /\ (\A i \in 1..Len(probe.text) : plain(probe.text[i]))
               => out = probe.text
          /\ \A t \in EscTexts :
               to_json_entry(ProbeItem(probe.field, t))[probe.field] = out
                 => t = probe.text

\* a title of a double quote and an angle bracket has been emitted with
\* the quote escaped and the bracket as it is
C16_Witness ==
    /\ probe.done
    /\ probe.field = "title"
    /\ probe.text = <<"\"", "<">>
    /\ probe.entry.title = <<"\\", "\"", "<">>
\* --------------------------------------------------------------- C17
\* C17: a tool that is absent, a tool that exits non-zero and any other
\* failure to start it are three error outcomes of three different
\* kinds, the non-zero exit carries the captured diagnostics, and each
\* aborts the build
C17_Original ==
    (probe.done /\ probe.first \in ToolFaults /\ probe.second \in ToolFaults)
    => /\ probe.res[1].tag = "err" /\ probe.res[2].tag = "err"
       /\ probe.aborted[1] /\ probe.aborted[2]
       /\ probe.first = "exit" => probe.res[1].msg = "exited"
       /\ probe.first # probe.second
            => probe.res[1].kind # probe.res[2].kind
\* --------------------------------------------------------------- C18
\* no name is held twice
NoDuplicate(es) ==
    \A i, j \in 1..Len(es) : es[i].name = es[j].name => i = j

\* C18: after a reconcile, whatever catalog the store gave, no two
\* entries of the catalog, in memory or persisted, have the same filename
C18_Original ==
    (pc = "done" /\ error = NoError)
    => NoDuplicate(entries) /\ NoDuplicate(store.media)
\* --------------------------------------------------------------- C19
\* where a name stands in a listing
PlaceIn(ls, name) == CHOOSE i \in 1..Len(ls) : ls[i] = name

\* the entries stand in the relative order their names have in the listing
ListingOrdered(es, ls) ==
    \A i, j \in 1..Len(es) :
        (i < j /\ es[i].name \in Range(ls) /\ es[j].name \in Range(ls))
            => PlaceIn(ls, es[i].name) <= PlaceIn(ls, es[j].name)

\* C19: the entries a reconcile persists stand in the same relative order
\* as their filenames in the directory listing that reconcile read, also
\* when a new file is listed before one cataloged earlier
C19_Original ==
    [][UpdateCommand("none") => ListingOrdered(store'.media, listing)]_vars
\* --------------------------------------------------------------- C20
\* C20: in every build the output directories are ensured before the
\* catalog is opened and reconciled; the reconciled catalog is persisted
\* before the media directory is listed; every asset has been processed
\* before the page is written; the page is written before the feed and
\* the static assets last; and after a failure no later step is executed
C20_StepOrder ==
    [][/\ pc' = "opened" => pc \in {"dirs", "opened"}
       /\ pc' = "reconciled"
            => /\ pc \in {"opened", "reconciled"}
               /\ store'.exists /\ store'.media = entries'
       /\ store' # store => pc = "opened" /\ pc' = "reconciled"
       /\ (items' # items /\ items' # <<>>) => pc = "reconciled"
       /\ ((dest' # dest \/ thumbs' # thumbs) /\ ~AtRest)
            => pc = "scanning" /\ store.exists /\ store.media = entries
       /\ "index.html" \in wrote' \ wrote
            => /\ pc = "scanned"
               /\ \A i \in 1..Len(items) : processed[i].tag \in {"ok", "none"}
               /\ dest' = dest /\ thumbs' = thumbs
       /\ "feed.xml" \in wrote' \ wrote => "index.html" \in wrote
       /\ "style.css" \in wrote' \ wrote
            => {"index.html", "feed.xml"} \subseteq wrote
       /\ "clutterlog.js" \in wrote' \ wrote
            => {"index.html", "feed.xml"} \subseteq wrote
       /\ "clutterlog.js" \in wrote => AtRest
       /\ pc = "failed"
            => /\ pc' \in {"failed", "idle", "dirs"}
               /\ store' = store
               /\ wrote' \subseteq wrote
               /\ (dest' # dest \/ thumbs' # thumbs) => pc' = "idle"
    ]_vars

\* a build of two assets has gone through every step
C20_Witness ==
    /\ pc = "done"
    /\ wrote = {"index.html", "feed.xml", "style.css", "clutterlog.js"}
    /\ store.exists
    /\ Len(store.media) = 2
    /\ Len(results) = 2
\* --------------------------------------------------------------- C21
\* how often the log holds an operation
CountOf(log, op) == Cardinality({i \in 1..Len(log) : log[i] = op})

\* the build has got through reconciliation and is still this build
PastReconcile == pc \in {"reconciled", "scanning", "scanned", "page", "feed", "done"}

\* C21, as stated: a build that has reconciled has read the store exactly
\* once and written it exactly once
C21_Original ==
    PastReconcile
    => CountOf(store_log, "read") = 1 /\ CountOf(store_log, "write") = 1

\* C21 (amended): a build reads the store at catalog open, exactly once
\* if the store exists then and not at all if it does not; it writes the
\* store exactly once, at the end of reconciliation, whatever was added or
\* removed and whether or not the media directory exists; no later step,
\* and no worker, reads or writes it
C21_StoreAccess ==
    [][/\ (pc = "dirs" /\ pc' = "opened")
            => store_log' = (IF store.exists THEN <<"read">> ELSE <<>>)
       /\ (pc = "opened" /\ pc' = "reconciled")
            => /\ store_log' = Append(store_log, "write")
               /\ store' = [exists |-> TRUE, media |-> entries']
       /\ PastReconcile'
            => /\ CountOf(store_log', "write") = 1
               /\ CountOf(store_log', "read") <= 1
               /\ store_log'[Len(store_log')] = "write"
       /\ (pc \in {"reconciled", "scanning", "scanned", "page", "feed"})
            => store_log' = store_log /\ store' = store
       /\ (pc' \in {"dirs", "opened"}) => CountOf(store_log', "write") = 0
    ]_vars

\* a build that found a store has read it and written it and is
\* processing assets
C21_Witness ==
    /\ pc = "scanning"
    /\ store_log = <<"read", "write">>
    /\ \E i \in 1..Len(processed) : processed[i].tag = "ok"
\* --------------------------------------------------------------- C22
\* C22: two distinct filenames of one listing that both pass
\* classification have different destination media paths and different
\* thumbnail paths, so no two workers write one file
C22_Original ==
    (/\ probe.done
     /\ probe.first # probe.second
     /\ probe.writes[1].classified
     /\ probe.writes[2].classified)
    => /\ probe.writes[1].media # probe.writes[2].media
       /\ probe.writes[1].thumb # probe.writes[2].thumb
\* --------------------------------------------------------------- C23
\* the items whose unit of work returned an Err(..)
Failing == {i \in 1..Len(processed) : processed[i].tag = "err"}

\* C23: when assets fail in the fan-out the build returns its error only
\* once every unit of work has run to its end; the copies and thumbnails
\* of the assets that succeeded are on disk; and the error is that of the
\* failing asset that is first in listing order, whatever the order in
\* which the workers finished
C23_FirstInListing ==
    [][(pc = "scanning" /\ pc' = "failed")
        => /\ \A i \in 1..Len(items) : processed[i].tag # "pending"
           /\ Len(finished) = Len(items)
           /\ Failing # {}
           /\ LET f == CHOOSE i \in Failing : \A j \in Failing : i <= j
              IN  /\ error'.step = "asset"
                  /\ error'.kind = processed[f].kind
                  /\ error'.path = processed[f].path
                  /\ error'.msg = processed[f].msg
                  /\ \A j \in Failing \ {f} :
                        PlaceIn(listing, items[f].name)
                          < PlaceIn(listing, items[j].name)
           /\ \A i \in 1..Len(items) :
                 processed[i].tag = "ok"
                   => /\ dest'[items[i].name] = meta[items[i].name].modified
                      /\ thumbs'[ThumbOf(items[i].name)]
                           = meta[items[i].name].modified
    ]_vars

\* two assets failed, the second listed one first; the workers are done
\* and the build has not yet returned
C23_Witness ==
    /\ pc = "scanning"
    /\ Len(items) = 2
    /\ finished = <<2, 1>>
    /\ processed[1].tag = "err"
    /\ processed[2].tag = "err"
    /\ processed[1].kind # processed[2].kind
\* --------------------------------------------------------------- C24
\* the names of the items a step has just processed
JustProcessed ==
    {items[i].name : i \in {j \in 1..Len(processed) :
        j <= Len(processed') /\ processed[j] # processed'[j]}}

\* C24: a build that fails after reconciliation leaves the catalog that
\* reconciliation persisted, and every media copy and thumbnail written,
\* as they are: the failing step changes nothing on disk, a unit of work
\* changes only its own two files and deletes nothing, and a unit whose
\* thumbnail fails leaves the copy it made
C24_NoRollback ==
    [][/\ (pc \in {"reconciled", "scanning", "scanned", "page", "feed"}
            /\ pc' = "failed")
            => /\ store' = store /\ dest' = dest /\ thumbs' = thumbs
               /\ store.exists /\ store.media = entries
               /\ wrote \subseteq wrote'
       /\ (pc = "scanning" /\ pc' = "scanning")
            => /\ store' = store
               /\ \A n \in Names :
                     /\ dest[n] # NoFile => dest'[n] # NoFile
                     /\ dest'[n] # dest[n] => n \in JustProcessed
               /\ \A t \in ThumbNames :
                     /\ thumbs[t] # NoFile => thumbs'[t] # NoFile
                     /\ thumbs'[t] # thumbs[t]
                          => \E n \in JustProcessed : t = ThumbOf(n)
               /\ \A i \in 1..Len(processed) :
                     (/\ processed[i].tag = "pending"
                      /\ processed'[i].tag = "err"
                      /\ processed'[i].kind \in {"Image", "Ffmpeg", "FfmpegNotFound"})
                     => dest'[items[i].name] = meta[items[i].name].modified
    ]_vars

\* a build failed writing the page; the catalog and the copy and the
\* thumbnail of an asset it processed are on disk
C24_Witness ==
    /\ pc = "failed"
    /\ error.step = "page"
    /\ store.exists
    /\ Len(store.media) >= 1
    /\ \E n \in Range(listing) :
          /\ ThumbOf(n) \in ThumbNames
          /\ dest[n] = meta[n].modified
          /\ thumbs[ThumbOf(n)] = meta[n].modified
\* --------------------------------------------------------------- C25
\* a worker is waiting for an ffmpeg child to exit
SomeWaiting == \E i \in 1..Len(processed) : processed[i] = Waiting

\* C25: with fair scheduling, and every ffmpeg child exiting, a build
\* that has started always returns, with a report or with an error; and
\* as long as a worker waits for a child the build does not return:
\* nothing but the exit of the child ends the wait
C25_Termination ==
    /\ [](~AtRest => <>AtRest)
    /\ [][SomeWaiting => (pc' = "scanning" /\ ~AtRest')]_vars
    /\ [][\A i \in 1..Len(processed) :
            (processed[i] = Waiting /\ processed'[i] # Waiting)
              => (finished' # <<>> /\ finished'[Len(finished')] = i)]_vars

\* a build has returned after a worker waited for ffmpeg and the other
\* worker finished first
C25_Witness ==
    /\ pc = "done"
    /\ Len(results) = 2
    /\ thumbs[ThumbOf([stem |-> "c", ext |-> "GIF"])] # NoFile
    /\ report.items_skipped = 0

\* ------------------------------------------- embedded tags on their own
\* the paths the embedded-metadata reader is given
ExifNames == [stem : {"a"}, ext : {"jpg", "JPG", "tif", "GIF", "png", NoExt}]

InitExif ==
    /\ Untouched
    /\ probe \in [name : ExifNames, tags : TagSeqs, done : {FALSE},
                   out : {NoTime}]

\* extract_exif_date is run on the file
ReadExif ==
    /\ ~probe.done
    /\ probe' = [probe EXCEPT !.done = TRUE,
                              !.out = extract_exif_date(probe.name, probe.tags)]
    /\ UNCHANGED diskVars
    /\ UNCHANGED buildVars
    /\ UNCHANGED edits

NextExif == ReadExif

SpecExif == InitExif /\ [][NextExif]_vars

\* the tags of the probed file that are present and parse, by priority
\* (1 original-capture, 2 digitized, 3 generic)
ParsingTags == {i \in 1..3 : probe.tags[i] \notin {Absent, Unparsable}}
\* the probed path has an extension of an embedded-metadata format
EmbeddedFormat ==
    /\ probe.name.ext # NoExt
    /\ to_lowercase(probe.name.ext) \in EXIF_EXTENSIONS

\* C26: the embedded capture timestamp is the value of the highest-priority
\* tag (original-capture, digitized, generic) that is present and parses:
\* an unparsable or absent higher tag is passed over, a lower tag is never
\* used when a higher one parses even if the lower one is earlier, and
\* there is no embedded timestamp when no tag parses or the extension is
\* not an embedded-metadata format
C26_TagPriority ==
    probe.done =>
        /\ (EmbeddedFormat /\ ParsingTags # {}) =>
                \E i \in ParsingTags :
                    /\ \A j \in ParsingTags : i <= j
                    /\ probe.out = probe.tags[i]
        /\ (~EmbeddedFormat \/ ParsingTags = {}) => probe.out = NoTime

\* the original-capture tag is unparsable, the digitized tag parses and the
\* generic tag is earlier than it: the digitized value is the result
C26_Witness ==
    /\ probe.done
    /\ EmbeddedFormat
    /\ probe.name.ext = "JPG"
    /\ probe.tags[1] = Unparsable
    /\ probe.tags[2] \in WholeTicks
    /\ probe.tags[3] \in WholeTicks
    /\ probe.tags[3] < probe.tags[2]
    /\ probe.out = probe.tags[2]


\* ------------------------------- a directory that moves under a build
\* a file whose metadata cannot be read
Unstatable(name) == [PlainFile(name) EXCEPT !.modified = NoTime]

\* the entries a directory can gain while a build runs
DriftMetas(name) == MetasFor(name) \cup {Unstatable(name)}

\* a site with one or two entries, and no store or a store that already
\* names "a.jpg"; probe.drift tells whether the directory has changed
\* since the catalog was reconciled
InitDrift ==
    /\ dirExists = TRUE
    /\ listing \in {<<[stem |-> "a", ext |-> "jpg"]>>,
                     <<[stem |-> "c", ext |-> "GIF"]>>,
                     <<[stem |-> "n", ext |-> "txt"],
                       [stem |-> "a", ext |-> "jpg"]>>}
    /\ meta \in [Names -> EntryMetas \cup {NoMeta}]
    /\ \A n \in Names : IF n \in Range(listing)
                         THEN meta[n] \in MetasFor(n)
                         ELSE meta[n] = NoMeta
    /\ store \in {[exists |-> FALSE, media |-> <<>>],
                   [exists |-> TRUE,
                    media |-> <<[name |-> [stem |-> "a", ext |-> "jpg"],
                                 datetime |-> EpochSentinel]>>]}
    /\ dest = [n \in Names |-> NoFile]
    /\ thumbs = [t \in ThumbNames |-> NoFile]
    /\ pc = "idle"
    /\ FreshBuild
    /\ repeat = FALSE
    /\ edits = 0
    /\ probe = [drift |-> FALSE]

\* the one build of the run starts
StartBuild(fault) ==
    /\ pc = "idle"
    /\ EnsureDirs(fault)

\* a file lands in the media directory after update_metadata has read it
\* and before scan_and_copy_media reads it
Drift(name, m) ==
    /\ pc = "reconciled"
    /\ dirExists
    /\ name \notin Range(listing)
    /\ Len(listing) < MaxFiles
    /\ m \in DriftMetas(name)
    /\ listing' = Append(listing, name)
    /\ meta' = [meta EXCEPT ![name] = m]
    /\ probe' = [drift |-> TRUE]
    /\ UNCHANGED <<dirExists, store, dest, thumbs>>
    /\ UNCHANGED buildVars
    /\ UNCHANGED edits

NextDrift ==
    \/ \E fault \in BOOLEAN : StartBuild(fault)
    \/ \E fault \in BOOLEAN : OpenLibrary(fault)
    \/ \E fault \in {"none", "read_dir", "entry", "save"} : UpdateMetadata(fault)
    \/ \E name \in Names : \E m \in DriftMetas(name) : Drift(name, m)
    \/ \E fault \in BOOLEAN : \E unread \in SUBSET (1..MaxFiles) :
          ListItems(fault, unread)
    \/ \E i \in 1..MaxFiles : \E fault \in BuildFaults : Worker(i, fault)
    \/ Gather
    \/ \E fault \in BOOLEAN : WritePage(fault)
    \/ \E fault \in BOOLEAN : WriteFeed(fault)
    \/ \E fault \in {"none", "style", "js"} : WriteStatic(fault)

SpecDrift == InitDrift /\ [][NextDrift]_vars

\* the items of the running build that were classified as assets
ClassifiedOk == {i \in 1..Len(processed) : processed[i].tag = "ok"}
\* the datetime the fallback chain gives the file of that name
ChainOf(name) ==
    IF \E k \in 1..Len(entries) : entries[k].name = name
    THEN entries[MinOf({k \in 1..Len(entries) : entries[k].name = name})].datetime
    ELSE IF meta[name].modified # NoTime
    THEN meta[name].modified \div TicksPerSec
    ELSE EpochSentinel

SkippedItems == {i \in 1..Len(items) : Classified(items[i]) /\ processed[i].skipped}
RegeneratedItems == {i \in 1..Len(items) : Classified(items[i]) /\ ~processed[i].skipped}

\* C28: in the report of a successful build the processed count is the
\* number of items that passed classification, regenerated and skipped
\* alike; the skipped count is the number that took the up-to-date path,
\* so skipped <= processed, with equality when nothing was regenerated;
\* and the two byte totals are summed over all those items, the skipped
\* ones included
C28_ReportCounting ==
    pc = "done" =>
        /\ report.items_processed =
                Cardinality(SkippedItems) + Cardinality(RegeneratedItems)
        /\ report.items_skipped = Cardinality(SkippedItems)
        /\ report.items_skipped <= report.items_processed
        /\ (RegeneratedItems = {} => report.items_processed = report.items_skipped)
        /\ report.total_media_size =
                SumSeq([i \in 1..Len(items) |->
                          IF Classified(items[i])
                          THEN MediaSize(items[i].name) ELSE 0])
        /\ report.total_thumbs_size =
                SumSeq([i \in 1..Len(items) |->
                          IF Classified(items[i]) THEN ThumbSize ELSE 0])

\* a build that skipped one asset and regenerated another
C28_Witness ==
    /\ pc = "done"
    /\ Cardinality(SkippedItems) = 1
    /\ Cardinality(RegeneratedItems) = 1
    /\ report.items_processed = 2
    /\ report.items_skipped = 1
    /\ report.total_media_size = 8
    /\ report.total_thumbs_size = 2


\* the item is judged up to date against the build directory as it is
JudgedUpToDate(i) ==
    is_up_to_date(from_path(items[i].name, meta[items[i].name], items[i].datetime),
                  dest, thumbs, meta)
\* the unit of work of item i is run in this step
UnitRuns(i) ==
    /\ pc = "scanning"
    /\ pc' = "scanning"
    /\ i \in 1..Len(processed)
    /\ processed[i].tag = "pending"
    /\ processed'[i].tag # "pending"

\* C29: the unit of work of a classified asset takes exactly one of two
\* branches. Judged up to date, it only reads the sizes of the two existing
\* outputs: nothing is copied, no thumbnail is made, the external tool is
\* not run and the build directory is as it was. Judged stale, it starts
\* with the copy, makes the thumbnail before it reads any size, and is
\* never flagged as skipped
C29_SkipWritesNothing ==
    [][\A i \in 1..Len(items) :
         (UnitRuns(i) /\ Classified(items[i])) =>
            IF JudgedUpToDate(i)
            THEN /\ processed'[i].ops = <<"sizes">>
                 /\ dest' = dest
                 /\ thumbs' = thumbs
                 /\ processed'[i].tag = "ok" => processed'[i].skipped
            ELSE /\ processed'[i].ops # <<>>
                 /\ Head(processed'[i].ops) = "copy"
                 /\ processed'[i].ops \in
                        {<<"copy">>, <<"copy", "image">>, <<"copy", "ffmpeg">>,
                         <<"copy", "image", "sizes">>, <<"copy", "ffmpeg", "sizes">>}
                 /\ processed'[i].tag = "ok" =>
                        /\ ~processed'[i].skipped
                        /\ Len(processed'[i].ops) = 3
                        /\ dest'[items[i].name] = meta[items[i].name].modified
                        /\ thumbs'[ThumbOf(items[i].name)] = meta[items[i].name].modified
      ]_vars

\* one build in which the first asset took the up-to-date path and the
\* second, an animation, was copied and put to the external tool
C29_Witness ==
    /\ pc = "scanning"
    /\ Len(items) = 2
    /\ processed[1].tag = "ok" /\ processed[1].skipped
    /\ processed[1].ops = <<"sizes">>
    /\ dest[items[1].name] = pre.dest[items[1].name]
    /\ processed[2].tag = "ok" /\ ~processed[2].skipped
    /\ processed[2].ops = <<"copy", "ffmpeg", "sizes">>
    /\ pre.dest[items[2].name] = NoFile
    /\ dest[items[2].name] # NoFile


\* --------------------------------------------- rendering on its own
\* a text is a sequence of marks; a mark is one character, or one whole
\* `{{name}}` placeholder, or "lit" for a run of template text
PagePlaceholders == <<"{{title}}", "{{description}}", "{{author}}",
                      "{{clutterlog_data}}">>
FeedPlaceholders == <<"{{title}}", "{{url}}", "{{description}}", "{{items}}">>

\* the bundled page template: text around its four placeholders
TEMPLATE_INDEX == <<"lit", "{{title}}", "lit", "{{description}}", "lit",
                    "{{author}}", "lit", "{{clutterlog_data}}", "lit">>
\* the bundled feed template
TEMPLATE_RSS == <<"lit", "{{title}}", "lit", "{{url}}", "lit",
                  "{{description}}", "lit", "{{items}}", "lit">>

\* escape_html: &, <, >, double quote, in turn
escape_html(t) ==
    replace(replace(replace(replace(t,
        "&", <<"&", "a", "m", "p", ";">>),
        "<", <<"&", "l", "t", ";">>),
        ">", <<"&", "g", "t", ";">>),
        "\"", <<"&", "q", "u", "o", "t", ";">>)

\* "Render index.html from template": four str::replace calls in a chain,
\* each one over the text the one before it returned
RenderIndex(info, clutterlog_data) ==
    replace(replace(replace(replace(TEMPLATE_INDEX,
        "{{title}}", escape_html(info.title)),
        "{{description}}", escape_html(info.description)),
        "{{author}}", escape_html(info.author)),
        "{{clutterlog_data}}", clutterlog_data)

\* "Render and write feed.xml"
RenderRss(info, rss_items) ==
    replace(replace(replace(replace(TEMPLATE_RSS,
        "{{title}}", escape_html(info.title)),
        "{{url}}", escape_html(info.url)),
        "{{description}}", escape_html(info.description)),
        "{{items}}", rss_items)

\* the marks a configured text is made of, and the texts tried
RenderAlphabet == {"x", "<", "{{title}}", "{{description}}", "{{author}}",
                   "{{clutterlog_data}}", "{{url}}", "{{items}}"}
RenderTexts == UNION {[1..n -> RenderAlphabet] : n \in 0..MaxValueLen}

\* any title and description; an author, a JSON array and feed items that
\* are plain or spell a placeholder
InitRender ==
    /\ Untouched
    /\ probe \in [title : RenderTexts, description : RenderTexts,
                   author : {<<"x">>, <<"{{clutterlog_data}}">>},
                   url : {<<"x">>},
                   data : {<<"[", "]">>, <<"{{title}}">>},
                   items : {<<>>, <<"{{description}}">>},
                   page : {<<>>}, feed : {<<>>}, step : {"start"}]

\* the page is rendered
RenderPage ==
    /\ probe.step = "start"
    /\ probe' = [probe EXCEPT !.page = RenderIndex(probe, probe.data),
                              !.step = "page"]
    /\ UNCHANGED diskVars
    /\ UNCHANGED buildVars
    /\ UNCHANGED edits

\* the feed is rendered
RenderFeed ==
    /\ probe.step = "page"
    /\ probe' = [probe EXCEPT !.feed = RenderRss(probe, probe.items),
                              !.step = "feed"]
    /\ UNCHANGED diskVars
    /\ UNCHANGED buildVars
    /\ UNCHANGED edits

NextRender == RenderPage \/ RenderFeed

SpecRender == InitRender /\ [][NextRender]_vars

\* the value each placeholder stands for
ValueOf(ph) ==
    CASE ph = "{{title}}" -> escape_html(probe.title)
      [] ph = "{{description}}" -> escape_html(probe.description)
      [] ph = "{{author}}" -> escape_html(probe.author)
      [] ph = "{{url}}" -> escape_html(probe.url)
      [] ph = "{{clutterlog_data}}" -> probe.data
      [] ph = "{{items}}" -> probe.items

RECURSIVE Simultaneous(_, _)
\* every placeholder of the template replaced by its own value, the values
\* left as they are
Simultaneous(tpl, phs) ==
    IF tpl = <<>> THEN <<>>
    ELSE (IF Head(tpl) \in Range(phs) THEN ValueOf(Head(tpl)) ELSE <<Head(tpl)>>)
         \o Simultaneous(Tail(tpl), phs)

RECURSIVE ChainIn(_, _)
\* the substitutions applied one after the other in the order given
ChainIn(text, order) ==
    IF order = <<>> THEN text
    ELSE ChainIn(replace(text, Head(order), ValueOf(Head(order))), Tail(order))

\* the orders in which four substitutions can be applied
Orders(phs) ==
    {[i \in 1..4 |-> phs[f[i]]] :
        f \in {g \in [1..4 -> 1..4] : \A a, b \in 1..4 : a # b => g[a] # g[b]}}

\* C30 as stated: in the rendered page and feed every placeholder of the
\* template is replaced by its own value only, text that arrived through a
\* value is emitted as it is, and any order of the four substitutions
\* gives the same text
C30_Original ==
    /\ probe.step \in {"page", "feed"} =>
          /\ probe.page = Simultaneous(TEMPLATE_INDEX, PagePlaceholders)
          /\ \A o \in Orders(PagePlaceholders) :
                ChainIn(TEMPLATE_INDEX, o) = probe.page
    /\ probe.step = "feed" =>
          /\ probe.feed = Simultaneous(TEMPLATE_RSS, FeedPlaceholders)
          /\ \A o \in Orders(FeedPlaceholders) :
                ChainIn(TEMPLATE_RSS, o) = probe.feed

====
